---- MODULE Spec2Model ----
(***************************************************************************)
(* A model of mediasorter's metadata resolution core:                      *)
(*   - parse_season_and_episode / parse_movie_name (parse.py)              *)
(*   - MetadataApi.async_fetch_json / MetadataApi.request (metadata.py)    *)
(*   - Cache (cache.py)                                                    *)
(*   - MediaSorter.find_tvshow / find_movie / suggest* / scan (sort.py)    *)
(* Strings are TLA+ strings; a Python None is the record NoneVal.          *)
(***************************************************************************)
EXTENDS Integers, Sequences, FiniteSets, TLC

VARIABLES
    \* ---- MetadataApi (one provider instance, shared by the fetcher tasks)
    semaphore,   \* free permits of MetadataApi.semaphore
    lru,         \* AsyncLRU of MetadataApi.request: the URLs with a stored response
    fstack,      \* per fetcher: the nested async_fetch_json frames [retry, max_retries]
    fpc,         \* per fetcher: position in the innermost frame
    furl,        \* per fetcher: the url argument of the call
    fmax,        \* per fetcher: the max_retries argument of the outermost call
    freq,        \* per fetcher: HTTP requests issued by the call so far
    flast,       \* per fetcher: status of the last HTTP response of the call (-1: none)
    fret,        \* per fetcher: how the call ended
    \* ---- Cache (MediaSorter.cache)
    path,        \* Cache.path: NoneVal (disabled) or the snapshot file's path
    memory,      \* Cache.memory.items: unique key -> metadata record
    snapshot,    \* the snapshot file at Cache.path
    got,         \* the last Cache.get since the last insert: [args, ret], or NoneVal
    lastInsert,  \* history: the last Cache.insert call: [args, result], or NoneVal
    inserted,    \* history: unique key -> the first record inserted under it
    written,     \* history: [items] held by the cache at its last write, or NoneVal
    reopened,    \* history: [held, loaded] of the last Cache built on the snapshot
    \* ---- MediaSorter (find_tvshow / find_movie and their callers)
    api,         \* config.api: the configured provider names, in order
    suffix_the,  \* config.parameters.tv.suffix_the
    rpc,         \* per resolver task: "idle", "query" (awaiting provider.query), "done"
    rcaller,     \* per resolver task: "find" (find_* called directly) or "suggest"
    rkind,       \* per resolver task: "tv" (find_tvshow) or "movie" (find_movie)
    rargs,       \* per resolver task: *args of find_tvshow / find_movie
    ridx,        \* per resolver task: position in config.api of the provider queried
    rexc,        \* per resolver task: the local list `exceptions`
    rret,        \* per resolver task: what find_* returned or raised
    rinvoked,    \* history: positions in config.api of the providers queried
    rlog,        \* history: how each finished provider.query ended
    \* ---- MediaSorter.scan of one directory and the suggest of each of its files
    media_type,  \* the media_type argument of scan: "auto", "tv" or "movie"
    parameters,  \* config.parameters: [tv, movie], the min_split_length of each
    files,       \* per task: the child path the task scans
    spc,         \* per task: "idle", "find" (suggest awaits find_*), "done"
    sop,         \* per task: the Operation of suggest, NoneVal if there is none
    sret,        \* per task: "pending", or how scan(child) ended: "returned", "raised"
    slog,        \* history: the steps suggest has taken for the file, in order
    scanpc,      \* scan(directory): "gather", "returned" or "raised"
    operations,  \* the list scan(directory) returned
    subpc,       \* scan(subdirectory): "none" (the directory has none),
                 \* "gather", "returned" or "raised"
    subops,      \* the list scan(subdirectory) returned
    \* ---- MetadataApi.try_harder, called by TvMaze.query / TMDB.query
    tpc,         \* "idle", "enter" (an activation starts), "await" (fetch and
                 \* validation of the attempt are awaited), "done"
    tcall,       \* the arguments of the innermost try_harder activation
    targs,       \* history: the arguments of the outermost try_harder call
    tlog,        \* history: the attempts of the call, in order
    tret,        \* what the call returned or raised
    \* ---- the find_* calls of the files one scan resolves concurrently
    qpc,         \* per file: "idle", "acquire" (at semaphore.acquire),
                 \* "in_flight" (the GET is sent), "released"
    qsem,        \* per file: free permits of the semaphore of the provider
                 \* its find_* call constructed (-1: none constructed yet)
    \* ---- MediaSorter.commit_all on a list of Operations
    commitpc,    \* "idle", "loop", "returned" or "raised"
    cops,        \* the list `operations`: [output_path, exception] each
    cidx,        \* position of the loop in the list
    disk,        \* the destination paths that exist
    overwrite,   \* options.overwrite
    \* ---- one file name parsed, and its title cleaned once more
    clean_in,    \* [src_path, kind, min_split_length]: what is parsed and how
    clean_title, \* the title the parser returned, NoneVal before that
    clean_again, \* the clean-up of the parser applied to clean_title
    \* ---- TvMaze._match_tv_show, the validation function of TvMaze.query
    vpc,         \* "idle", "embedded" (called), "alternate" (the fetch of the
                 \* alternative URL is awaited), "done"
    vin,         \* the call: [episodes, links, season_id, episode_id]
    valt,        \* what the alternative URL answered, NoneVal before that
    vret,        \* what the call returned or raised
    \* ---- TMDB._match_movie, the validation function of TMDB.query
    mm_in,       \* the call: [results, search_term, search_year]
    mm_out,      \* what the call returned or raised, NoneVal before that
    \* ---- TMDB.async_fetch_json, the paged fetch
    pgpc,        \* "idle", "first" (page 1 awaited), "next" (a further page
                 \* awaited), "done"
    pgfirst,     \* the payload of page 1: [total_pages, results]
    pglog,       \* history: the pages requested, in order
    pgret,       \* what the call returned or raised
    pgstore,     \* the URL cache: page -> [stored, now], the payload as it was
                 \* stored and the stored object as it is now
    pgcalls,     \* history: what the earlier calls on the URL returned or raised
    \* ---- the functions of parse.py applied to one path
    parse_in,    \* [src_path, min_split_length, force]
    parse_out    \* [fn, result]: the function applied and what it returned

varsFetch == <<semaphore, lru, fstack, fpc, furl, fmax, freq, flast, fret>>
varsCache == <<path, memory, snapshot, got, lastInsert, inserted, written, reopened>>
varsDirect == <<got, lastInsert, snapshot, written, reopened>>
varsConfig == <<api, suffix_the>>
varsResolve == <<rpc, rcaller, rkind, rargs, ridx, rexc, rret, rinvoked, rlog>>
varsInput == <<media_type, parameters, files>>
varsSuggest == <<spc, sop, sret, slog>>
varsGather == <<scanpc, operations, subpc, subops>>
varsScan == <<varsInput, varsSuggest, varsGather>>
varsTry == <<tpc, tcall, targs, tlog, tret>>
varsPermits == <<qpc, qsem>>
varsCommit == <<commitpc, cops, cidx, disk, overwrite>>
varsClean == <<clean_in, clean_title, clean_again>>
varsTvMatch == <<vpc, vin, valt, vret>>
varsMovieMatch == <<mm_in, mm_out>>
varsPages == <<pgpc, pgfirst, pglog, pgret, pgstore, pgcalls>>
varsParse == <<parse_in, parse_out>>
varsMid == <<varsTry, varsPermits, varsCommit, varsClean>>
varsLate == <<varsTvMatch, varsMovieMatch, varsPages, varsParse>>
varsMore == <<varsMid, varsLate>>
vars == <<varsFetch, varsCache, varsConfig, varsResolve, varsScan, varsMore>>

\* What the actions of one component leave alone.
FetchFrame == UNCHANGED <<varsCache, varsConfig, varsResolve, varsScan, varsMore>>
CacheFrame == UNCHANGED <<varsFetch, varsConfig, varsResolve, varsScan, varsMore>>
ResolveFrame ==
    UNCHANGED <<varsFetch, varsConfig, varsDirect, path, varsScan, varsMore>>
ScanFrame ==
    UNCHANGED <<varsFetch, varsConfig, varsDirect, path, varsInput, varsMore>>
varsCore == <<varsFetch, varsCache, varsConfig, varsResolve, varsScan>>
TryFrame == UNCHANGED <<varsCore, varsPermits, varsCommit, varsClean, varsLate>>
PermitsFrame == UNCHANGED <<varsCore, varsTry, varsCommit, varsClean, varsLate>>
CommitFrame == UNCHANGED <<varsCore, varsTry, varsPermits, varsClean, varsLate>>
CleanFrame == UNCHANGED <<varsCore, varsTry, varsPermits, varsCommit, varsLate>>
TvMatchFrame ==
    UNCHANGED <<varsCore, varsMid, varsMovieMatch, varsPages, varsParse>>
MovieMatchFrame ==
    UNCHANGED <<varsCore, varsMid, varsTvMatch, varsPages, varsParse>>
PagesFrame ==
    UNCHANGED <<varsCore, varsMid, varsTvMatch, varsMovieMatch, varsParse>>
ParseFrame ==
    UNCHANGED <<varsCore, varsMid, varsTvMatch, varsMovieMatch, varsPages>>

(***************************************************************************)
(* Python values                                                           *)
(***************************************************************************)
NoneVal == [none |-> TRUE]
StrVal(s) == [str |-> s]
IntVal(i) == [int |-> i]
ListVal == [list |-> <<>>]      \* a value that is neither str nor int nor None

IsNone(v) == DOMAIN v = {"none"}
IsStr(v) == DOMAIN v = {"str"}
IsInt(v) == DOMAIN v = {"int"}

\* str(arg) of a str or an int
PyStr(v) == IF IsStr(v) THEN v.str ELSE ToString(v.int)

\* sep.join(parts)
RECURSIVE Join(_, _)
Join(parts, sep) ==
    IF Len(parts) = 0 THEN ""
    ELSE IF Len(parts) = 1 THEN parts[1]
    ELSE parts[1] \o sep \o Join(Tail(parts), sep)

EmptyMap == [k \in {} |-> NoneVal]
MapPut(m, k, v) == [x \in DOMAIN m \cup {k} |-> IF x = k THEN v ELSE m[x]]


(***************************************************************************)
(* Strings and regular expressions (Python's str and re, as parse.py uses  *)
(* them)                                                                   *)
(***************************************************************************)
Ch(s, i) == SubSeq(s, i, i)
Digits == {"0", "1", "2", "3", "4", "5", "6", "7", "8", "9"}

SetMax(S) == CHOOSE n \in S : \A m \in S : m <= n
SetMin(S) == CHOOSE n \in S : \A m \in S : n <= m

\* int(digits)
DigitVal(c) ==
    CASE c = "0" -> 0 [] c = "1" -> 1 [] c = "2" -> 2 [] c = "3" -> 3 [] c = "4" -> 4
      [] c = "5" -> 5 [] c = "6" -> 6 [] c = "7" -> 7 [] c = "8" -> 8 [] c = "9" -> 9

RECURSIVE ToInt(_)
ToInt(digits) ==
    IF Len(digits) = 0 THEN 0
    ELSE 10 * ToInt(SubSeq(digits, 1, Len(digits) - 1)) + DigitVal(Ch(digits, Len(digits)))

\* str.lower()
UPPERCASE == "ABCDEFGHIJKLMNOPQRSTUVWXYZ"
LOWERCASE == "abcdefghijklmnopqrstuvwxyz"
LowerCh(c) ==
    LET at == {i \in 1..Len(UPPERCASE) : Ch(UPPERCASE, i) = c} IN
    IF at = {} THEN c ELSE Ch(LOWERCASE, CHOOSE i \in at : TRUE)

RECURSIVE Lower(_)
Lower(s) == IF Len(s) = 0 THEN "" ELSE LowerCh(Ch(s, 1)) \o Lower(SubSeq(s, 2, Len(s)))

\* s.find(c) from the right: the last position of the character c in s, 0 if none
LastIndexOf(s, c) ==
    LET at == {i \in 1..Len(s) : Ch(s, i) = c} IN IF at = {} THEN 0 ELSE SetMax(at)

\* str.split(sep) for a one-character sep, without the empty words
\* (parse.py:74  [word for word in filename.split(split_character) if word])
RECURSIVE SplitWords(_, _)
SplitWords(s, sep) ==
    IF Len(s) = 0 THEN <<>>
    ELSE LET at == {i \in 1..Len(s) : Ch(s, i) = sep}
             cut == IF at = {} THEN Len(s) + 1 ELSE SetMin(at)
             word == SubSeq(s, 1, cut - 1)
             rest == SplitWords(SubSeq(s, cut + 1, Len(s)), sep)
         IN  IF word = "" THEN rest ELSE <<word>> \o rest

\* A regular expression is a sequence of items: a character class repeated
\* lo..hi times (hi = -1: unbounded), greedy, perhaps capturing group 1 or 2;
\* or an anchor.
Cls(chars, lo, hi, grp) ==
    [kind |-> "cls", neg |-> FALSE, chars |-> chars, lo |-> lo, hi |-> hi, grp |-> grp]
NotCls(chars, lo, hi, grp) ==
    [kind |-> "cls", neg |-> TRUE, chars |-> chars, lo |-> lo, hi |-> hi, grp |-> grp]
Lit(c) == Cls({c}, 1, 1, 0)
Bos == [kind |-> "bos", neg |-> FALSE, chars |-> {}, lo |-> 0, hi |-> 0, grp |-> 0]
Eos == [kind |-> "eos", neg |-> FALSE, chars |-> {}, lo |-> 0, hi |-> 0, grp |-> 0]

ClassHas(item, c) == IF item.neg THEN c \notin item.chars ELSE c \in item.chars

\* How many characters of s from position i on are in the item's class, up to limit
RECURSIVE Run(_, _, _, _)
Run(item, s, i, limit) ==
    IF limit = 0 \/ i > Len(s) \/ ~ClassHas(item, Ch(s, i)) THEN 0
    ELSE 1 + Run(item, s, i + 1, limit - 1)

NoMatch == [ok |-> FALSE, start |-> 0, end |-> 0, g1 |-> "", g2 |-> ""]

\* The match of the items k.. of pat at position i of s: greedy, backtracking.
RECURSIVE MatchFrom(_, _, _, _)
MatchFrom(pat, k, s, i) ==
    IF k > Len(pat) THEN [ok |-> TRUE, start |-> i, end |-> i, g1 |-> "", g2 |-> ""]
    ELSE LET item == pat[k] IN
         IF item.kind = "bos"
         THEN IF i = 1 THEN MatchFrom(pat, k + 1, s, i) ELSE NoMatch
         ELSE IF item.kind = "eos"
         THEN IF i = Len(s) + 1 THEN MatchFrom(pat, k + 1, s, i) ELSE NoMatch
         ELSE LET most == Run(item, s, i, IF item.hi < 0 THEN Len(s) ELSE item.hi)
                  good == {n \in item.lo..most : MatchFrom(pat, k + 1, s, i + n).ok}
              IN  IF good = {} THEN NoMatch
                  ELSE LET n == SetMax(good)
                           rest == MatchFrom(pat, k + 1, s, i + n)
                           text == SubSeq(s, i, i + n - 1)
                       IN  [ok |-> TRUE, start |-> i, end |-> rest.end,
                            g1 |-> IF item.grp = 1 THEN text ELSE rest.g1,
                            g2 |-> IF item.grp = 2 THEN text ELSE rest.g2]

\* re.search(pat, s): the leftmost match; start and end are 1-based, end exclusive
Search(pat, s) ==
    LET starts == {i \in 1..(Len(s) + 1) : MatchFrom(pat, 1, s, i).ok} IN
    IF starts = {} THEN NoMatch ELSE MatchFrom(pat, 1, s, SetMin(starts))

\* len(match.groups())
NGroups(pat) == Cardinality({k \in 1..Len(pat) : pat[k].grp > 0})

\* re.sub(pat, "", s)
RECURSIVE SubEmpty(_, _)
SubEmpty(pat, s) ==
    LET m == Search(pat, s) IN
    IF ~m.ok \/ m.end = m.start THEN s
    ELSE SubSeq(s, 1, m.start - 1) \o SubEmpty(pat, SubSeq(s, m.end, Len(s)))

\* str.strip(), of blanks
RECURSIVE Strip(_)
Strip(s) ==
    IF Len(s) > 0 /\ Ch(s, 1) = " " THEN Strip(SubSeq(s, 2, Len(s)))
    ELSE IF Len(s) > 0 /\ Ch(s, Len(s)) = " " THEN Strip(SubSeq(s, 1, Len(s) - 1))
    ELSE s

(***************************************************************************)
(* parse.py                                                                *)
(***************************************************************************)
D(lo, hi, grp) == Cls(Digits, lo, hi, grp)

\* parse.py:16-21
YEAR_PATTERNS == <<
    <<Lit("("), D(4, 4, 1), Lit(")")>>,
    <<Lit(" "), Cls({"("}, 0, 1, 0), D(4, 4, 1), Lit(")"), Lit(" ")>>,
    <<Lit(" "), Cls({"("}, 0, 1, 0), D(4, 4, 1), Cls({")"}, 0, 1, 0), Eos>>,
    <<NotCls(Digits, 1, 1, 0), Cls({"("}, 0, 1, 0), D(4, 4, 1), Cls({")"}, 0, 1, 0),
      NotCls(Digits, 1, 1, 0)>> >>

\* parse.py:25-33
SxxEyy_PATTERNS == <<
    <<Cls({"S", "s"}, 1, 1, 0), D(1, -1, 1), Cls({" "}, 0, 1, 0),
      Cls({"E", "e"}, 1, 1, 0), D(1, -1, 2)>>,
    <<Cls({"S", "s"}, 1, 1, 0), D(1, -1, 1), Lit(" "), D(1, -1, 2)>>,
    <<Lit(" "), D(2, 3, 1), Lit(" "), D(2, 3, 2), Lit(" ")>>,
    <<Lit(" "), D(1, 3, 1), Cls({"x", " "}, 1, 1, 0), D(2, 3, 2), Lit(" ")>>,
    <<Lit(" "), Lit("E"), D(1, -1, 1), Lit(" ")>>,
    <<Lit(" "), Lit("E"), D(1, -1, 1), Eos>>,
    <<Lit("["), D(1, -1, 1), Lit("x"), D(1, -1, 2), Lit("]")>> >>

\* parse.py:37-43
SxxEyy_PATTERNS_EXTENDED == SxxEyy_PATTERNS \o <<
    <<Lit("E"), D(2, 2, 1), NotCls(Digits, 1, 1, 0)>>,
    <<Bos, D(2, 2, 1), NotCls(Digits, 1, 1, 0)>>,
    <<NotCls(Digits, 1, 1, 0), D(2, 2, 1), Eos>>,
    <<Cls({" ", "-", "_"}, 1, 1, 0), D(2, 2, 1), Cls({" ", "-", "_"}, 1, 1, 0)>> >>

\* parse.py:48-51
CLEAN_PATTERNS ==
    << <<Lit("["), NotCls({" "}, 0, -1, 0), Lit("]")>> >> \o YEAR_PATTERNS

\* os.path.basename, os.path.dirname, os.path.splitext
Basename(p) == SubSeq(p, LastIndexOf(p, "/") + 1, Len(p))
Dirname(p) ==
    LET cut == LastIndexOf(p, "/") IN
    IF cut = 0 THEN "" ELSE IF cut = 1 THEN "/" ELSE SubSeq(p, 1, cut - 1)
ExtensionAt(p) ==
    LET base == Basename(p)
        dot == LastIndexOf(base, ".")
        lead == Run(Lit("."), base, 1, Len(base))
    IN  IF dot > lead THEN Len(p) - Len(base) + dot ELSE Len(p) + 1
SplitextRoot(p) == SubSeq(p, 1, ExtensionAt(p) - 1)
SplitextExt(p) == SubSeq(p, ExtensionAt(p), Len(p))

SelectWords(words, Keep(_)) == SelectSeq(words, Keep)

\* The lists of the set S in any order at all: a parser that does not sort.
AnyOrders(S) ==
    {order \in [1..Cardinality(S) -> S] :
        \A i, j \in DOMAIN order : i # j => order[i] # order[j]}

\* The lists of the set S in an order list.sort(key=len, reverse=True) can leave
\* them in: the order of set() is arbitrary, the sort is stable.
SortedOrders(S) ==
    {order \in [1..Cardinality(S) -> S] :
        /\ \A i, j \in DOMAIN order : i # j => order[i] # order[j]
        /\ \A i, j \in DOMAIN order : i < j => Len(order[i]) >= Len(order[j])}

ParsingError == [raised |-> "ParsingError"]
IsParsingError(r) == r = ParsingError

\* parse.py:54-101  split_basename: the set of the splits long enough; {} stands
\* for the ParsingError raised when there is none
split_basename(src_path, split_chars, min_split_length) ==
    LET filename == SplitextRoot(Basename(src_path))
        splits == {SplitWords(filename, split_chars[i]) : i \in DOMAIN split_chars}
        NotInvalid(part) == part # "-"
    IN  {SelectWords(split, NotInvalid) : split \in {x \in splits : Len(x) >= min_split_length}}

\* parse.py:104-116  _find_sxx_eyy_in_dis_structure: "<TV show>/Season <XX>/..."
season_pattern ==
    <<Bos, Cls({"S", "s"}, 1, 1, 0), Lit("e"), Lit("a"), Lit("s"), Lit("o"), Lit("n"),
      Cls({" "}, 0, 1, 0), D(1, -1, 1)>>

find_sxx_eyy_in_dis_structure(src_path) ==
    LET dir == Dirname(src_path)
        head == Dirname(dir)
        season_dir == Basename(dir)
        match == Search(season_pattern, season_dir)
    IN  IF match.ok
        THEN [show_name |-> Basename(head), season_id |-> ToInt(match.g1)]
        ELSE [show_name |-> "", season_id |-> 0]

\* A search that goes by patterns first: the first pattern, and for it the
\* first split, with a match.
FirstSxxEyyByPattern(order, patterns) ==
    LET found == {ij \in (DOMAIN order) \X (DOMAIN patterns) :
                    Search(patterns[ij[2]], Join(order[ij[1]], " ")).ok}
    IN  IF found = {} THEN <<0, 0>>
        ELSE CHOOSE ij \in found : \A kl \in found :
                ij[2] < kl[2] \/ (ij[2] = kl[2] /\ ij[1] <= kl[1])

\* parse.py:133-153  the loops of _find_sxx_eyy over the splits in the given
\* order and over the patterns: the first split, and for it the first pattern,
\* that is found in the split's words joined by blanks
FirstSxxEyy(order, patterns) ==
    LET found == {ij \in (DOMAIN order) \X (DOMAIN patterns) :
                    Search(patterns[ij[2]], Join(order[ij[1]], " ")).ok}
    IN  IF found = {} THEN <<0, 0>>
        ELSE CHOOSE ij \in found : \A kl \in found :
                ij[1] < kl[1] \/ (ij[1] = kl[1] /\ ij[2] <= kl[2])

\* parse.py:136-153  the match of pat in string is the season and episode
SxxEyyMatch(dis, string, pat, match) ==
    [raised |-> "",
     words |-> SplitWords(IF dis.show_name # "" THEN dis.show_name
                          ELSE IF match.start > 1 THEN SubSeq(string, 1, match.start - 1)
                          ELSE SubSeq(string, match.end, Len(string)), " "),
     season_id |-> IF NGroups(pat) # 1 THEN ToInt(match.g1)
                   ELSE IF dis.season_id = 0 THEN 1 ELSE dis.season_id,
     episode_id |-> IF NGroups(pat) # 1 THEN ToInt(match.g2) ELSE ToInt(match.g1)]

SxxEyyIn(dis, string, pat) == SxxEyyMatch(dis, string, pat, Search(pat, string))

\* parse.py:133-154  the split and the pattern at ij, or no match at all
SxxEyyAt(dis, order, patterns, ij) ==
    IF ij[1] = 0 THEN ParsingError
    ELSE SxxEyyIn(dis, Join(order[ij[1]], " "), patterns[ij[2]])

SxxEyyOf(dis, order, patterns) == SxxEyyAt(dis, order, patterns, FirstSxxEyy(order, patterns))

\* parse.py:123-125, 135  a season directory forces the extended patterns
SxxEyyWith(dis, order, force) ==
    SxxEyyOf(dis, order, IF force \/ dis.season_id # 0 THEN SxxEyy_PATTERNS_EXTENDED
                         ELSE SxxEyy_PATTERNS)

\* parse.py:119-154  _find_sxx_eyy, for one order of the splits
find_sxx_eyy(src_path, order, force) ==
    SxxEyyWith(find_sxx_eyy_in_dis_structure(src_path), order, force)

HasYear(word) == \E k \in DOMAIN YEAR_PATTERNS : Search(YEAR_PATTERNS[k], word).ok

RECURSIVE LowerAll(_)
LowerAll(words) ==
    IF Len(words) = 0 THEN <<>> ELSE <<Lower(Head(words))>> \o LowerAll(Tail(words))

\* parse.py:258-259 (strip = TRUE) and parse.py:285-286 (strip = FALSE)
RECURSIVE Clean(_, _, _)
Clean(name, k, strip) ==
    IF k > Len(CLEAN_PATTERNS) THEN name
    ELSE LET subbed == SubEmpty(CLEAN_PATTERNS[k], name)
         IN  Clean(IF strip THEN Strip(subbed) ELSE subbed, k + 1, strip)

NoYear(word) == ~HasYear(word)

\* parse.py:247-261  the title of the found words, cleaned
SeasonAndEpisode(found) ==
    IF IsParsingError(found) THEN ParsingError
    ELSE [raised |-> "",
          name |-> Clean(Join(LowerAll(SelectWords(found.words, NoYear)), " "), 1, TRUE),
          season_id |-> found.season_id,
          episode_id |-> found.episode_id]

ParseSplits(given, splits, force) ==
    IF splits = {} THEN {ParsingError}
    ELSE {SeasonAndEpisode(find_sxx_eyy(given, order, force)) : order \in SortedOrders(splits)}

ParseGiven(given, split_chars, min_split_length, force) ==
    ParseSplits(given, split_basename(given, split_chars, min_split_length), force)

\* parse.py:222-261  parse_season_and_episode: every result the call can have,
\* one for each order the splits can come in
parse_season_and_episode(src_path, split_chars, min_split_length, force) ==
    ParseGiven(IF force THEN src_path ELSE Basename(src_path),
               split_chars, min_split_length, force)

\* re.fullmatch(pat, word)
FullMatch(pat, word) == MatchFrom(pat \o <<Eos>>, 1, word, 1).ok

Range(seq) == {seq[i] : i \in DOMAIN seq}

\* list.remove(word): the first occurrence goes
RemoveFirst(words, word) ==
    LET i == SetMin({j \in DOMAIN words : words[j] = word})
    IN  SubSeq(words, 1, i - 1) \o SubSeq(words, i + 1, Len(words))

\* parse.py:190-198  the metadata "pieces" of one split; metadata_mapping is the
\* sequence of the (key, value) items of the dict, each key a regular expression
RECURSIVE ExtractMetainfo(_, _, _, _, _)
ExtractMetainfo(metadata_mapping, k, possible_split, w, acc) ==
    IF acc.raised # "" \/ k > Len(metadata_mapping) THEN acc
    ELSE IF w > Len(possible_split)
    THEN ExtractMetainfo(metadata_mapping, k + 1, possible_split, 1, acc)
    ELSE LET md_key == metadata_mapping[k][1]
             value == metadata_mapping[k][2]
             word == possible_split[w]
         IN  IF FullMatch(md_key, word) /\ value \notin Range(acc.parsed_metainfo)
             THEN IF word \notin Range(acc.cleaned_split)
                  THEN [acc EXCEPT !.raised = "ValueError"]
                  ELSE ExtractMetainfo(metadata_mapping, k, possible_split, w + 1,
                          [raised |-> "",
                           parsed_metainfo |-> Append(acc.parsed_metainfo, value),
                           cleaned_split |-> RemoveFirst(acc.cleaned_split, word)])
             ELSE ExtractMetainfo(metadata_mapping, k, possible_split, w + 1, acc)

\* parse.py:186-219  the loops of _find_title_and_year, from pattern p and split i on
RECURSIVE TitleLoop(_, _, _, _, _)
TitleLoop(splits, metadata_mapping, p, i, probable_result) ==
    IF p > Len(YEAR_PATTERNS) THEN probable_result
    ELSE IF i > Len(splits) THEN TitleLoop(splits, metadata_mapping, p + 1, 1, probable_result)
    ELSE LET ex == ExtractMetainfo(metadata_mapping, 1, splits[i], 1,
                      [raised |-> "", parsed_metainfo |-> <<>>, cleaned_split |-> splits[i]])
             string == Join(ex.cleaned_split, " ")
             match == Search(YEAR_PATTERNS[p], string)
             guess == [raised |-> "", words |-> ex.cleaned_split, year |-> NoneVal,
                       metainfo |-> ex.parsed_metainfo]
         IN  IF ex.raised # "" THEN [raised |-> ex.raised]
             ELSE IF match.ok
             THEN [raised |-> "",
                   words |-> SplitWords(SubSeq(string, 1, match.start - 1), " "),
                   year |-> IntVal(ToInt(match.g1)),
                   metainfo |-> ex.parsed_metainfo]
             ELSE IF Len(probable_result.metainfo) < Len(ex.parsed_metainfo)
             THEN TitleLoop(splits, metadata_mapping, p, i + 1, guess)
             ELSE IF Len(probable_result.words) < Len(ex.cleaned_split)
             THEN TitleLoop(splits, metadata_mapping, p, i + 1, guess)
             ELSE TitleLoop(splits, metadata_mapping, p, i + 1, probable_result)

\* parse.py:157-219  _find_title_and_year, for one order of the splits
find_title_and_year(order, metadata_mapping) ==
    LET Words(split) == Len(split) > 1
        splits == IF Len(order) > 1 THEN SelectSeq(order, Words) ELSE order
    IN  TitleLoop(splits, metadata_mapping, 1, 1,
                  [raised |-> "", words |-> <<>>, year |-> NoneVal, metainfo |-> <<>>])

\* parse.py:264-288  parse_movie_name: every result the call can have
parse_movie_name(src_path, split_chars, min_split_length, metadata_mapping) ==
    LET splits == split_basename(src_path, split_chars, min_split_length)
        Finish(found) ==
            IF found.raised # "" THEN found
            ELSE [raised |-> "",
                  name |-> Clean(Join(LowerAll(found.words), " "), 1, FALSE),
                  year |-> found.year,
                  metainfo |-> found.metainfo]
    IN  IF splits = {} THEN {ParsingError}
        ELSE {Finish(find_title_and_year(order, metadata_mapping)) :
                order \in SortedOrders(splits)}


(***************************************************************************)
(* metadata.py: MetadataApi.async_fetch_json and MetadataApi.request       *)
(***************************************************************************)

\* metadata.py:19  max_concurrent_requests = os.environ.get(...) or 10
max_concurrent_requests == 10

\* metadata.py:131  the default of the max_retries parameter
DEFAULT_MAX_RETRIES == 4

\* The largest permit count of a semaphore built with few permits.
MaxPermits == 2

\* The fetcher tasks that call async_fetch_json on the instance.
Fetchers == {"f1", "f2"}

\* The URLs fetched.
Urls == {"u1", "u2"}

\* The max_retries values a caller passes.
RetryCeilings == {0, 1, 4, 6}

\* What the server answers: HTTP statuses; 0 stands for a connection failure
\* (aiohttp raises a ClientConnectionError, which is no ClientResponseError).
CONNECTION_FAILURE == 0
Statuses == {200, 404, 429, 503, CONNECTION_FAILURE}

Frame(retry, max_retries) == [retry |-> retry, max_retries |-> max_retries]

Top(stack) == stack[Len(stack)]

\* A fetcher that retries after every error response below the ceiling.
ShouldRetryAnyStatus(status, frame) == frame.retry < frame.max_retries

\* metadata.py:149  e.status in (429, 503) and retry < max_retries
ShouldRetry(status, frame) ==
    status \in {429, 503} /\ frame.retry < frame.max_retries

\* metadata.py:153  return await self.async_fetch_json(url, retry + 1)
\* (max_retries is not passed on: the nested call runs with the default)
RetryFrame(frame) == Frame(frame.retry + 1, DEFAULT_MAX_RETRIES)

FetchInit ==
    /\ semaphore = max_concurrent_requests
    /\ lru = {}
    /\ fstack = [t \in Fetchers |-> <<>>]
    /\ fpc = [t \in Fetchers |-> "idle"]
    /\ furl = [t \in Fetchers |-> "u1"]
    /\ fmax = [t \in Fetchers |-> 0]
    /\ freq = [t \in Fetchers |-> 0]
    /\ flast = [t \in Fetchers |-> -1]
    /\ fret = [t \in Fetchers |-> "none"]

\* The call returns or raises: every frame's `finally` releases its permit
\* (metadata.py:155-156); no frame suspends on the way out.
Unwind(t, how) ==
    /\ semaphore' = semaphore + Len(fstack[t])
    /\ fstack' = [fstack EXCEPT ![t] = <<>>]
    /\ fpc' = [fpc EXCEPT ![t] = "done"]
    /\ fret' = [fret EXCEPT ![t] = how]

\* A caller awaits async_fetch_json(url, max_retries=m)  (metadata.py:131-142)
FetchCall(t, url, m) ==
    /\ FetchFrame
    /\ fpc[t] = "idle"
    /\ fstack' = [fstack EXCEPT ![t] = <<Frame(0, m)>>]
    /\ fpc' = [fpc EXCEPT ![t] = "acquire"]
    /\ furl' = [furl EXCEPT ![t] = url]
    /\ fmax' = [fmax EXCEPT ![t] = m]
    /\ freq' = [freq EXCEPT ![t] = 0]
    /\ flast' = [flast EXCEPT ![t] = -1]
    /\ fret' = [fret EXCEPT ![t] = "none"]
    /\ UNCHANGED <<semaphore, lru>>

\* metadata.py:114-128  @AsyncLRU(maxsize=1024): the response of a request
\* that returned is stored under its URL; raise_for_status leaves by an
\* exception, and "raised errors don't get cached".
Store(cache, url, status) == IF status = 200 THEN cache \cup {url} ELSE cache

\* An LRU that never finds a stored response.
StoredNever(cache, url) == FALSE

\* metadata.py:114  @AsyncLRU: is a response stored under the URL?
Stored(cache, url) == url \in cache

\* await self.semaphore.acquire() (metadata.py:143), then MetadataApi.request:
\* a stored response is returned at once, otherwise the GET is sent
\* (metadata.py:115-126).
FetchAcquire(t) ==
    /\ FetchFrame
    /\ fpc[t] = "acquire"
    /\ semaphore > 0
    /\ IF Stored(lru, furl[t])
       THEN /\ semaphore' = semaphore - 1 + Len(fstack[t])
            /\ fstack' = [fstack EXCEPT ![t] = <<>>]
            /\ fpc' = [fpc EXCEPT ![t] = "done"]
            /\ fret' = [fret EXCEPT ![t] = "json"]
            /\ UNCHANGED freq
       ELSE /\ semaphore' = semaphore - 1
            /\ fpc' = [fpc EXCEPT ![t] = "await_response"]
            /\ freq' = [freq EXCEPT ![t] = @ + 1]
            /\ UNCHANGED <<fstack, fret>>
    /\ UNCHANGED <<lru, furl, fmax, flast>>

\* The response arrives (metadata.py:126-129, 144-156).
FetchResponse(t, status) ==
    /\ FetchFrame
    /\ fpc[t] = "await_response"
    /\ flast' = [flast EXCEPT ![t] = status]
    /\ lru' = Store(lru, furl[t], status)
    /\ IF status = 200
       THEN Unwind(t, "json")
       ELSE IF status = CONNECTION_FAILURE
       THEN Unwind(t, "ClientConnectionError")
       ELSE IF ShouldRetry(status, Top(fstack[t]))
       THEN /\ fpc' = [fpc EXCEPT ![t] = "sleep"]
            /\ UNCHANGED <<semaphore, fstack, fret>>
       ELSE Unwind(t, "MetadataQueryError")
    /\ UNCHANGED <<furl, fmax, freq>>

\* asyncio.sleep is over: the nested call starts, the outer frame keeps its
\* permit (metadata.py:152-153).
FetchWake(t) ==
    /\ FetchFrame
    /\ fpc[t] = "sleep"
    /\ fstack' = [fstack EXCEPT ![t] = Append(@, RetryFrame(Top(@)))]
    /\ fpc' = [fpc EXCEPT ![t] = "acquire"]
    /\ UNCHANGED <<semaphore, lru, furl, fmax, freq, flast, fret>>

\* The caller takes the result and the call's locals are gone; the task may
\* call again.
FetchFinish(t) ==
    /\ FetchFrame
    /\ fpc[t] = "done"
    /\ fpc' = [fpc EXCEPT ![t] = "idle"]
    /\ furl' = [furl EXCEPT ![t] = "u1"]
    /\ fmax' = [fmax EXCEPT ![t] = 0]
    /\ freq' = [freq EXCEPT ![t] = 0]
    /\ flast' = [flast EXCEPT ![t] = -1]
    /\ fret' = [fret EXCEPT ![t] = "none"]
    /\ UNCHANGED <<semaphore, lru, fstack>>

FetchNext ==
    \/ \E t \in Fetchers, url \in Urls, m \in RetryCeilings : FetchCall(t, url, m)
    \/ \E t \in Fetchers : FetchAcquire(t)
    \/ \E t \in Fetchers, status \in Statuses : FetchResponse(t, status)
    \/ \E t \in Fetchers : FetchWake(t)
    \/ \E t \in Fetchers : FetchFinish(t)

(***************************************************************************)
(* cache.py: Cache                                                         *)
(***************************************************************************)

\* models.py:4-13
TvShowMetadata(series_title, season_id, episode_title, episode_id) ==
    [series_title |-> series_title, season_id |-> season_id,
     episode_title |-> episode_title, episode_id |-> episode_id]
MovieMetadata(title, year) == [title |-> title, year |-> year]

\* config.py:100  cache_path: Optional[str] = "/tmp/mediasorter.cache"
CachePaths == {NoneVal, StrVal("/tmp/mediasorter.cache")}

\* A cache that never takes itself for disabled.
is_disabled_never(p) == FALSE

\* cache.py:32-34
is_disabled(p) == IsNone(p)

\* cache.py:40-64  __construct_unique_key(*args); no caller passes kwargs,
\* so the kwargs loop (52-62) never runs.  Returns StrVal(key) or NoneVal.
RECURSIVE KeyLoop(_, _, _)
KeyLoop(args, i, res) ==
    IF i > Len(args) THEN StrVal(Join(res, ","))
    ELSE IF IsNone(args[i]) THEN KeyLoop(args, i + 1, res)
    ELSE IF ~IsStr(args[i]) /\ ~IsInt(args[i]) THEN NoneVal
    ELSE KeyLoop(args, i + 1, Append(res, PyStr(args[i])))

construct_unique_key(args) == KeyLoop(args, 1, <<>>)

\* `not unique_key` (cache.py:71, 82): None and the empty string are falsy
NotKey(k) == IsNone(k) \/ k = StrVal("")

\* A cache whose insert stores nothing.
CacheInsertNothing(p, items, args, result) == items

\* cache.py:66-75  Cache.insert(*args, result=result): the new memory.items
CacheInsert(p, items, args, result) ==
    IF is_disabled(p) THEN items
    ELSE LET unique_key == construct_unique_key(args) IN
         IF NotKey(unique_key) THEN items
         ELSE MapPut(items, unique_key.str, result)

\* cache.py:77-90  Cache.get(*args): the hit, or NoneVal
CacheGet(p, items, args) ==
    IF is_disabled(p) THEN NoneVal
    ELSE LET unique_key == construct_unique_key(args) IN
         IF NotKey(unique_key) THEN NoneVal
         ELSE IF unique_key.str \in DOMAIN items THEN items[unique_key.str]
         ELSE NoneVal

\* models.py:4-13  the annotated fields of the two record classes
TvShowFields ==
    [series_title |-> "str", season_id |-> "int", episode_title |-> "str",
     episode_id |-> "int"]
MovieFields == [title |-> "str", year |-> "int"]

\* cache.py:98  Memory.json(): every record becomes a JSON object of its
\* fields, a str field a JSON string and an int field a JSON number; the
\* object does not name the class it came from.
JsonObject(record) ==
    [f \in DOMAIN record |->
        IF f \in {"series_title", "episode_title", "title"}
        THEN StrVal(record[f]) ELSE IntVal(record[f])]
MemoryJson(items) == [k \in DOMAIN items |-> JsonObject(items[k])]

\* pydantic's validation of a JSON value against an annotation: a str field
\* takes a string or a number (as its str()), an int field takes a number.
Coercible(type, value) == IF type = "str" THEN IsStr(value) \/ IsInt(value) ELSE IsInt(value)
Coerce(type, value) == IF type = "str" THEN PyStr(value) ELSE value.int

\* A JSON object validates as a class when it has every field of the class
\* with a value of the field's type; other fields of the object are ignored.
Validates(fields, object) ==
    /\ DOMAIN fields \subseteq DOMAIN object
    /\ \A f \in DOMAIN fields : Coercible(fields[f], object[f])
ParseObject(fields, object) == [f \in DOMAIN fields |-> Coerce(fields[f], object[f])]

ValidationError == [raised |-> "ValidationError"]

\* cache.py:10-11  Union[TvShowMetadata, MovieMetadata]: the members of the
\* union are tried in the order written, the first that validates wins.
ParseUnion(object) ==
    IF Validates(TvShowFields, object) THEN ParseObject(TvShowFields, object)
    ELSE IF Validates(MovieFields, object) THEN ParseObject(MovieFields, object)
    ELSE ValidationError

\* A cache that reads nothing from its snapshot.
MemoryFromNothing(p, file) == EmptyMap

\* cache.py:16-30  Cache.__init__: the memory.items of a cache built on the
\* path, read from the snapshot file when the path is set and the file is
\* there and not empty.
MemoryFrom(p, file) ==
    IF IsNone(p) \/ ~file.exists THEN EmptyMap
    ELSE IF file.contents = NoneVal THEN EmptyMap
    ELSE [k \in DOMAIN file.contents.items |-> ParseUnion(file.contents.items[k])]

\* cache.py:92-99  Cache.write(): the new content of the snapshot file
CacheWrite(p, items, file) ==
    IF is_disabled(p) THEN file
    ELSE [exists |-> TRUE, contents |-> [items |-> MemoryJson(items)]]

\* The history of first inserts, kept beside Cache.insert.
FirstInserted(p, hist, args, result) ==
    IF is_disabled(p) THEN hist
    ELSE LET unique_key == construct_unique_key(args) IN
         IF NotKey(unique_key) \/ unique_key.str \in DOMAIN hist THEN hist
         ELSE MapPut(hist, unique_key.str, result)

\* The argument lists of the direct cache calls: scalar lists like those of
\* find_movie(title, year) (sort.py:368), one of them with the title
\* parse_movie_name gives for 'x,2020.mkv', and lists that are empty, hold an
\* empty string, a None or a non-scalar.
CacheArgs ==
    {<<StrVal("x"), IntVal(2020)>>, <<StrVal("x"), NoneVal>>, <<StrVal("")>>,
     <<>>, <<ListVal>>, <<StrVal("x,2020"), NoneVal>>}

\* The records inserted by the direct cache calls.
CacheResults == {TvShowMetadata("The X", 1, "Pilot", 1), MovieMetadata("X", 2020)}

\* Cache.__init__ with no snapshot file at the path (cache.py:16-30)
CacheInit ==
    /\ path \in CachePaths
    /\ memory = EmptyMap
    /\ snapshot = [exists |-> FALSE]
    /\ got = NoneVal
    /\ lastInsert = NoneVal
    /\ inserted = EmptyMap
    /\ written = NoneVal
    /\ reopened = NoneVal

CacheIdle ==
    /\ path = NoneVal
    /\ memory = EmptyMap
    /\ snapshot = [exists |-> FALSE]
    /\ got = NoneVal
    /\ lastInsert = NoneVal
    /\ inserted = EmptyMap
    /\ written = NoneVal
    /\ reopened = NoneVal

\* cache.insert(*args, result=result)
CacheInsertOp(args, result) ==
    /\ CacheFrame
    /\ memory' = CacheInsert(path, memory, args, result)
    /\ inserted' = FirstInserted(path, inserted, args, result)
    /\ lastInsert' = [args |-> args, result |-> result]
    /\ got' = NoneVal
    /\ UNCHANGED <<path, snapshot, written, reopened>>

\* cache.get(*args)
CacheGetOp(args) ==
    /\ CacheFrame
    /\ got' = [args |-> args, ret |-> CacheGet(path, memory, args)]
    /\ UNCHANGED <<path, memory, snapshot, lastInsert, inserted, written, reopened>>

\* cache.write()
CacheWriteOp ==
    /\ CacheFrame
    /\ snapshot' = CacheWrite(path, memory, snapshot)
    /\ written' = IF is_disabled(path) THEN written ELSE [items |-> memory]
    /\ UNCHANGED <<path, memory, got, lastInsert, inserted, reopened>>

\* Cache(path): a new cache is built on the same path (cache.py:16-30) and
\* takes the place of the one that wrote.
CacheReopenOp ==
    /\ CacheFrame
    /\ memory' = MemoryFrom(path, snapshot)
    /\ reopened' = [held |-> written, loaded |-> memory']
    /\ got' = NoneVal
    /\ lastInsert' = NoneVal
    /\ inserted' = EmptyMap
    /\ UNCHANGED <<path, snapshot, written>>

CacheNext ==
    \/ \E args \in CacheArgs, result \in CacheResults : CacheInsertOp(args, result)
    \/ \E args \in CacheArgs : CacheGetOp(args)
    \/ CacheWriteOp
    \/ CacheReopenOp


(***************************************************************************)
(* sort.py: MediaSorter.find_tvshow / find_movie and their callers         *)
(***************************************************************************)

\* metadata.py:47-51, 239-251: a provider class registers under its lower-
\* cased class name: TvMaze for TV shows, TMDB for movies.
tv_metadata_providers == {"tvmaze"}
movie_metadata_providers == {"tmdb"}
Registry(kind) ==
    IF kind = "tv" THEN tv_metadata_providers ELSE movie_metadata_providers

\* The names a configuration lists: each is registered for one media kind
\* and, like a name that no provider class has, unknown to the other registry.
ProviderNames == {"tvmaze", "tmdb"}

\* The longest config.api list modelled.
MaxApis == 2

Configs == UNION {[1..n -> ProviderNames] : n \in 0..MaxApis}

\* The concurrent tasks of asyncio.gather (sort.py:210, 237).
Resolvers == {"r1", "r2"}

\* *args of find_tvshow(name, series, episode) and find_movie(movie, year)
\* (sort.py:329, 368)
TvArgs == {<<StrVal("the x"), IntVal(1), IntVal(1)>>}
MovieArgs == {<<StrVal("x"), IntVal(2020)>>, <<StrVal(""), NoneVal>>}
ResolveArgs(kind) == IF kind = "tv" THEN TvArgs ELSE MovieArgs
NoArgs == <<StrVal(""), IntVal(0), IntVal(0)>>    \* rargs of an idle task

\* The records provider.query may return (metadata.py:335-340, 461).
TvResults(args) ==
    {TvShowMetadata(t, args[2].int, "Pilot", args[3].int) : t \in {"The X", "X"}}
MovieResults(args) == {MovieMetadata("X", 2020)}
Results(kind, args) == IF kind = "tv" THEN TvResults(args) ELSE MovieResults(args)
AllResults == UNION {Results(kind, args) : kind \in {"tv"}, args \in TvArgs}
                 \cup UNION {Results(kind, args) : kind \in {"movie"}, args \in MovieArgs}

\* parse.py:291-295  fix_leading_the: re.match('[Tt]he\s(.*)', series_title)
fix_leading_the(series_title) ==
    IF /\ Len(series_title) >= 4
       /\ SubSeq(series_title, 1, 1) \in {"T", "t"}
       /\ SubSeq(series_title, 2, 3) = "he"
       /\ SubSeq(series_title, 4, 4) = " "
    THEN SubSeq(series_title, 5, Len(series_title)) \o ", The"
    ELSE series_title

\* A loop that takes every configured provider, registered or not.
NextProviderAny(apis, kind, i) == IF i < Len(apis) THEN i + 1 ELSE 0

\* sort.py:267-270, 290-294: the next entry of config.api after position i
\* whose name the registry of the media kind knows; 0 when the loop ends.
NextProvider(apis, kind, i) ==
    LET later == {j \in (i + 1)..Len(apis) : apis[j] \in Registry(kind)} IN
    IF later = {} THEN 0 ELSE CHOOSE j \in later : \A k \in later : j <= k

\* A handler that keeps only the latest error.
OnProviderErrorLast(exceptions, e) == <<e>>

\* sort.py:275-277, 299-301: exceptions.append(e)
OnProviderError(exceptions, e) == Append(exceptions, e)

\* What find_* ended with: a returned record, or the aggregate error raised
IsValue(ret) == "value" \in DOMAIN ret
IsAggregate(ret) == "causes" \in DOMAIN ret

\* sort.py:279-282, 303-306
MediaSorterError(exceptions) == [error |-> "MediaSorterError", causes |-> exceptions]

\* sort.py:331-332: suggest_tv_show sets result.series_title on the record
\* find_tvshow returned.  That record is the object the cache holds under the
\* call's key (the hit of sort.py:263, or the result inserted at sort.py:273),
\* so the assignment shows in memory.items.
SuggestThe(caller, kind, items, args) ==
    LET unique_key == construct_unique_key(args) IN
    IF /\ caller = "suggest" /\ kind = "tv" /\ suffix_the
       /\ ~is_disabled(path) /\ ~NotKey(unique_key)
       /\ unique_key.str \in DOMAIN items
    THEN [items EXCEPT ![unique_key.str].series_title = fix_leading_the(@)]
    ELSE items

\* No task has called find_* yet.
ResolversIdle ==
    /\ rpc = [t \in Resolvers |-> "idle"]
    /\ rcaller = [t \in Resolvers |-> "find"]
    /\ rkind = [t \in Resolvers |-> "tv"]
    /\ rargs = [t \in Resolvers |-> NoArgs]
    /\ ridx = [t \in Resolvers |-> 0]
    /\ rexc = [t \in Resolvers |-> <<>>]
    /\ rret = [t \in Resolvers |-> NoneVal]
    /\ rinvoked = [t \in Resolvers |-> <<>>]
    /\ rlog = [t \in Resolvers |-> <<>>]

ResolveInit ==
    /\ api \in Configs
    /\ suffix_the \in BOOLEAN
    /\ ResolversIdle

ResolveIdle ==
    /\ api = <<>>
    /\ suffix_the = FALSE
    /\ ResolversIdle

\* The MetadataQueryError a provider raises: it names the provider's position
\* in config.api.
QueryErrors == {[provider |-> j, msg |-> "not found"] : j \in 1..MaxApis}

\* find_* ends: it returns or raises `how`.
Ends(t, how) ==
    /\ rpc' = [rpc EXCEPT ![t] = "done"]
    /\ rret' = [rret EXCEPT ![t] = how]

\* The loop of find_* moves on from position i of config.api: the next
\* registered provider is queried, or the loop is over and the aggregate
\* error is raised (sort.py:267-282, 290-306).
Advance(t, kind, i, exceptions) ==
    LET j == NextProvider(api, kind, i) IN
    /\ rexc' = [rexc EXCEPT ![t] = exceptions]
    /\ IF j = 0
       THEN /\ Ends(t, MediaSorterError(exceptions))
            /\ UNCHANGED <<ridx, rinvoked>>
       ELSE /\ rpc' = [rpc EXCEPT ![t] = "query"]
            /\ ridx' = [ridx EXCEPT ![t] = j]
            /\ rinvoked' = [rinvoked EXCEPT ![t] = Append(@, j)]
            /\ UNCHANGED rret

\* find_tvshow(*args) / find_movie(*args) is called, directly or by
\* suggest_tv_show / suggest_movie: the cache is asked, and on a miss the
\* first registered provider is queried (sort.py:261-272, 284-296).
FindCall(t, caller, kind, args) ==
    /\ rpc[t] = "idle"
    /\ rcaller' = [rcaller EXCEPT ![t] = caller]
    /\ rkind' = [rkind EXCEPT ![t] = kind]
    /\ rargs' = [rargs EXCEPT ![t] = args]
    /\ rlog' = [rlog EXCEPT ![t] = <<>>]
    /\ LET hit == CacheGet(path, memory, args) IN
       IF hit # NoneVal
       THEN /\ Ends(t, [value |-> hit])
            /\ memory' = SuggestThe(caller, kind, memory, args)
            /\ UNCHANGED <<ridx, rexc, rinvoked, inserted>>
       ELSE /\ Advance(t, kind, 0, <<>>)
            /\ UNCHANGED <<memory, inserted>>

\* provider.query returns `result`: it is inserted in the cache and
\* returned (sort.py:272-274, 296-298); suggest_tv_show goes on without
\* suspending (sort.py:329-332).
QueryReturned(t, result) ==
    /\ rpc[t] = "query"
    /\ result \in Results(rkind[t], rargs[t])
    /\ Ends(t, [value |-> result])
    /\ memory' = SuggestThe(rcaller[t], rkind[t],
                            CacheInsert(path, memory, rargs[t], result), rargs[t])
    /\ inserted' = FirstInserted(path, inserted, rargs[t], result)
    /\ rlog' = [rlog EXCEPT ![t] =
                   Append(@, [api |-> ridx[t], returned |-> result])]
    /\ UNCHANGED <<rcaller, rkind, rargs, ridx, rexc, rinvoked>>

\* provider.query raises the MetadataQueryError e: it is kept and the loop
\* goes on (sort.py:275-277, 299-301).
QueryRaised(t, e) ==
    /\ rpc[t] = "query"
    /\ e.provider = ridx[t]
    /\ Advance(t, rkind[t], ridx[t], OnProviderError(rexc[t], e))
    /\ rlog' = [rlog EXCEPT ![t] = Append(@, [api |-> ridx[t], raised |-> e])]
    /\ UNCHANGED <<rcaller, rkind, rargs, memory, inserted>>

\* provider.query raises an exception that is no MetadataQueryError (a
\* connection failure, a KeyError on the payload): find_* does not catch it.
QueryCrashed(t) ==
    /\ rpc[t] = "query"
    /\ Ends(t, [error |-> "Exception"])
    /\ rlog' = [rlog EXCEPT ![t] = Append(@, [api |-> ridx[t], crashed |-> TRUE])]
    /\ UNCHANGED <<rcaller, rkind, rargs, ridx, rexc, rinvoked, memory, inserted>>

\* The four steps above as they happen in a task that calls find_* and
\* nothing else.
FindStart(t, caller, kind, args) ==
    /\ ResolveFrame
    /\ args \in ResolveArgs(kind)
    /\ FindCall(t, caller, kind, args)

QueryReturn(t, result) == ResolveFrame /\ QueryReturned(t, result)

QueryRaise(t, e) == ResolveFrame /\ QueryRaised(t, e)

QueryCrash(t) == ResolveFrame /\ QueryCrashed(t)

\* The caller has the outcome; the task may resolve again.
ResolveFinish(t) ==
    /\ ResolveFrame
    /\ rpc[t] = "done"
    /\ rpc' = [rpc EXCEPT ![t] = "idle"]
    /\ rcaller' = [rcaller EXCEPT ![t] = "find"]
    /\ rkind' = [rkind EXCEPT ![t] = "tv"]
    /\ rargs' = [rargs EXCEPT ![t] = NoArgs]
    /\ ridx' = [ridx EXCEPT ![t] = 0]
    /\ rexc' = [rexc EXCEPT ![t] = <<>>]
    /\ rret' = [rret EXCEPT ![t] = NoneVal]
    /\ rinvoked' = [rinvoked EXCEPT ![t] = <<>>]
    /\ rlog' = [rlog EXCEPT ![t] = <<>>]
    /\ UNCHANGED <<memory, inserted>>

ResolveNext ==
    \/ \E t \in Resolvers, caller \in {"find", "suggest"}, kind \in {"tv", "movie"},
          args \in TvArgs \cup MovieArgs : FindStart(t, caller, kind, args)
    \/ \E t \in Resolvers, result \in AllResults : QueryReturn(t, result)
    \/ \E t \in Resolvers, e \in QueryErrors : QueryRaise(t, e)
    \/ \E t \in Resolvers : QueryCrash(t)
    \/ \E t \in Resolvers : ResolveFinish(t)

(***************************************************************************)
(* sort.py: MediaSorter.suggest, suggest_tv_show, suggest_movie and scan    *)
(***************************************************************************)
\* config.py:144-145, 94
valid_extensions == {".avi", ".mkv", ".mp4"}
split_characters == <<" ", ".", "_">>
metainfo_map == <<>>

\* tv.min_split_length and movie.min_split_length: config.py:154, 163
\* (default_config) and config.py:49 (the default of the model class)
MinSplitLengths == {1, 3}
Parameters == {[tv |-> 3, movie |-> 1], [tv |-> 3, movie |-> 3], [tv |-> 1, movie |-> 3]}

\* The scanned directory and the names os.listdir may find in it, in the order
\* of sorted() (sort.py:227).
ScanDir == "/in"
Listing == <<"A.B.S01E02.mkv", "Film.mkv", "Movie.Name.2020.mkv", "My.Show.05.mkv",
             "README", "Show.S01E02.mkv", "notes.txt">>

\* A subdirectory of the scanned directory; sorted() puts it after the names
\* of Listing.
SubDir == "sub"

\* os.path.join(a, b), for a relative b
PathJoin(a, b) == IF a = "" THEN b ELSE a \o "/" \o b

TvArgsOf(parsed) == <<StrVal(parsed.name), IntVal(parsed.season_id), IntVal(parsed.episode_id)>>
MovieArgsOf(parsed) == <<StrVal(parsed.name), parsed.year>>

\* An Operation that is built with an output path already.
OperationWithOutput(input_path) ==
    [input_path |-> input_path, type |-> "tv",
     output_path |-> StrVal(input_path), exception |-> NoneVal]

\* sort.py:38-44, 410-415  Operation(input_path=src_path, type="tv", ...)
Operation(input_path) ==
    [input_path |-> input_path, type |-> "tv",
     output_path |-> NoneVal, exception |-> NoneVal]

\* sort.py:419-422  MediaSorterError("... can't be parsed into a TV show: ...")
TvParseError ==
    [error |-> "MediaSorterError", msg |-> "can't be parsed into a TV show",
     cause |-> ParsingError]
\* sort.py:356  MediaSorterError("This appears to be a TV show: ...")
TvShowRejected == [error |-> "MediaSorterError", msg |-> "This appears to be a TV show"]
\* sort.py:436-439  MediaSorterError("... can't be parsed into a movie title: ...")
MovieError(e) ==
    [error |-> "MediaSorterError", msg |-> "can't be parsed into a movie title",
     cause |-> e]

\* "{:02d}".format(n)
Pad2(n) == IF n < 10 THEN "0" \o ToString(n) ELSE ToString(n)

\* str.replace(c, "") for each character c of chars
RECURSIVE RemoveChars(_, _)
RemoveChars(s, chars) ==
    IF Len(s) = 0 THEN ""
    ELSE (IF Ch(s, 1) \in chars THEN "" ELSE Ch(s, 1))
            \o RemoveChars(SubSeq(s, 2, Len(s)), chars)

\* sort.py:331-339 with the formats of config.py:152-153: the season
\* directory and the file name of a TV record
TvTitle(result) ==
    IF suffix_the THEN fix_leading_the(result.series_title) ELSE result.series_title
TvDirectory(result) == TvTitle(result) \o "/Season " \o Pad2(result.season_id)
TvFilename(result) ==
    Join(SplitWords(TvTitle(result) \o " S" \o Pad2(result.season_id)
                      \o "E" \o Pad2(result.episode_id)
                      \o " - " \o result.episode_title, " "), " ")

\* sort.py:375-388 with the formats of config.py:161-165 (subdir on, no tagging)
MovieDirectory(result) == result.title \o " " \o ToString(result.year)
MovieFilename(result) == Strip(result.title \o " " \o ToString(result.year))

\* sort.py:444-456  the suggested output path
DstPath(type, result, extension) ==
    LET directory == IF type = "tv" THEN TvDirectory(result) ELSE MovieDirectory(result)
        filename == IF type = "tv" THEN TvFilename(result) ELSE MovieFilename(result)
    IN  RemoveChars(PathJoin(directory, filename), {":", "#"}) \o extension

\* The tv_shows_output and movies_output arguments of scan (sort.py:217-218)
tv_shows_output == "/tv"
movies_output == "/movies"

\* sort.py:248-256  what scan(child) does with the Operation suggest returned
ScanOutput(op) ==
    IF IsNone(op) \/ ~IsNone(op.exception) THEN op
    ELSE IF op.type = "tv"
    THEN [op EXCEPT !.output_path = StrVal(PathJoin(tv_shows_output, @.str))]
    ELSE [op EXCEPT !.output_path = StrVal(PathJoin(movies_output, @.str))]

\* A disqualifier that lets every name pass.
DisqualifiedNever(parsed) == FALSE

\* sort.py:349-356  suggest_movie: the name parses as a TV show (non-forced)
Disqualified(parsed) == ~IsParsingError(parsed)

\* A suggest for which a TV parse failure is terminal under every media type,
\* and one for which it never is.
TvParseFailureAlwaysTerminal(type) == TRUE
TvParseFailureNeverTerminal(type) == FALSE

\* sort.py:421  if media_type == "tv": the parse failure is the file's error
TvParseFailureTerminal(type) == type = "tv"

\* suggest, and with it scan(child), returns: op is the Operation, or NoneVal
Suggested(t, op, log) ==
    /\ spc' = [spc EXCEPT ![t] = "done"]
    /\ sret' = [sret EXCEPT ![t] = "returned"]
    /\ sop' = [sop EXCEPT ![t] = ScanOutput(op)]
    /\ slog' = [slog EXCEPT ![t] = log]

\* suggest, and with it scan(child), raises
SuggestRaised(t, log) ==
    /\ spc' = [spc EXCEPT ![t] = "done"]
    /\ sret' = [sret EXCEPT ![t] = "raised"]
    /\ sop' = [sop EXCEPT ![t] = NoneVal]
    /\ slog' = [slog EXCEPT ![t] = log]

\* find_* has been called or resumed by the step: if it has ended, suggest
\* goes on to its end without suspending (sort.py:416-458); if it awaits a
\* provider, so does suggest.
AfterFind(t, op, log) ==
    LET ret == rret'[t] IN
    IF rpc'[t] # "done"
    THEN /\ spc' = [spc EXCEPT ![t] = "find"]
         /\ sop' = [sop EXCEPT ![t] = op]
         /\ slog' = [slog EXCEPT ![t] = log]
         /\ UNCHANGED sret
    ELSE IF IsValue(ret)
    THEN Suggested(t, [op EXCEPT !.output_path =
                         StrVal(DstPath(op.type, ret.value, SplitextExt(op.input_path)))], log)
    ELSE IF IsAggregate(ret)
    THEN Suggested(t, [op EXCEPT !.exception =
                         IF op.type = "tv" THEN ret ELSE MovieError(ret)], log)
    ELSE SuggestRaised(t, log)

NoFind == UNCHANGED <<varsResolve, memory, inserted>>

\* sort.py:431-442, 341-368  the movie path of suggest up to its first await
SuggestMovie(t, src_path, log) ==
    LET op == [Operation(src_path) EXCEPT !.type = "movie"] IN
    \E tv \in parse_season_and_episode(src_path, split_characters,
                                         parameters.movie, FALSE) :
        IF Disqualified(tv)
        THEN /\ Suggested(t, [op EXCEPT !.exception = MovieError(TvShowRejected)],
                          log \o <<"disqualify">>)
             /\ NoFind
        ELSE \E movie \in parse_movie_name(src_path, split_characters,
                                             parameters.movie, metainfo_map) :
                IF IsParsingError(movie)
                THEN /\ Suggested(t, [op EXCEPT !.exception = MovieError(ParsingError)],
                                  log \o <<"disqualify", "parse_movie_name">>)
                     /\ NoFind
                ELSE IF movie.raised # ""
                THEN /\ SuggestRaised(t, log \o <<"disqualify", "parse_movie_name">>)
                     /\ NoFind
                ELSE /\ FindCall(t, "suggest", "movie", MovieArgsOf(movie))
                     /\ AfterFind(t, op,
                           log \o <<"disqualify", "parse_movie_name", "find_movie">>)

\* sort.py:416-429, 308-329  the TV path of suggest up to its first await
SuggestTvShow(t, src_path) ==
    LET op == Operation(src_path) IN
    \E first \in parse_season_and_episode(src_path, split_characters,
                                            parameters.tv, FALSE) :
        IF ~IsParsingError(first)
        THEN /\ FindCall(t, "suggest", "tv", TvArgsOf(first))
             /\ AfterFind(t, op, <<"parse_tv", "find_tvshow">>)
        ELSE \E second \in parse_season_and_episode(src_path, split_characters,
                                                  parameters.tv, TRUE) :
                IF ~IsParsingError(second)
                THEN /\ FindCall(t, "suggest", "tv", TvArgsOf(second))
                     /\ AfterFind(t, op, <<"parse_tv", "parse_tv_forced", "find_tvshow">>)
                ELSE IF TvParseFailureTerminal(media_type)
                THEN /\ Suggested(t, [op EXCEPT !.exception = TvParseError],
                                  <<"parse_tv", "parse_tv_forced">>)
                     /\ NoFind
                ELSE SuggestMovie(t, src_path, <<"parse_tv", "parse_tv_forced">>)

\* The order of the tasks of asyncio.gather: that of the sorted listing.
TaskOrder == <<"r1", "r2">>

ScanInit ==
    /\ api \in {<<"tvmaze", "tmdb">>, <<"tmdb">>}
    /\ suffix_the = FALSE
    /\ ResolversIdle
    /\ media_type \in {"auto", "tv", "movie"}
    /\ parameters \in Parameters
    /\ \E i, j \in DOMAIN Listing, nested \in BOOLEAN :
          /\ i < j
          /\ files = [t \in Resolvers |->
                        IF t = TaskOrder[1] THEN PathJoin(ScanDir, Listing[i])
                        ELSE IF nested
                        THEN PathJoin(PathJoin(ScanDir, SubDir), Listing[j])
                        ELSE PathJoin(ScanDir, Listing[j])]
          /\ subpc = IF nested THEN "gather" ELSE "none"
    /\ spc = [t \in Resolvers |-> "idle"]
    /\ sop = [t \in Resolvers |-> NoneVal]
    /\ sret = [t \in Resolvers |-> "pending"]
    /\ slog = [t \in Resolvers |-> <<>>]
    /\ scanpc = "gather"
    /\ operations = <<>>
    /\ subops = <<>>

ScanIdle ==
    /\ media_type = "auto"
    /\ parameters = [tv |-> 3, movie |-> 1]
    /\ files = [t \in Resolvers |-> ""]
    /\ spc = [t \in Resolvers |-> "idle"]
    /\ sop = [t \in Resolvers |-> NoneVal]
    /\ sret = [t \in Resolvers |-> "pending"]
    /\ slog = [t \in Resolvers |-> <<>>]
    /\ scanpc = "gather"
    /\ operations = <<>>
    /\ subpc = "none"
    /\ subops = <<>>

\* sort.py:244-257, 390-429  scan(child) runs for a file: suggest, up to its
\* first suspension or to its end
ScanFile(t) ==
    /\ ScanFrame
    /\ spc[t] = "idle"
    /\ UNCHANGED varsGather
    /\ LET src_path == files[t]
           extension == SplitextExt(src_path)
       IN  IF extension = "" \/ extension \notin valid_extensions
           THEN Suggested(t, NoneVal, <<>>) /\ NoFind
           ELSE IF media_type \in {"auto", "tv"}
           THEN SuggestTvShow(t, src_path)
           ELSE SuggestMovie(t, src_path, <<>>)

\* The provider query that the suggest of task t awaits returns `result`
ProviderReturns(t) ==
    /\ ScanFrame
    /\ spc[t] = "find"
    /\ UNCHANGED varsGather
    /\ \E result \in Results(rkind[t], rargs[t]) :
          /\ QueryReturned(t, result)
          /\ AfterFind(t, sop[t], slog[t])

\* ... raises the MetadataQueryError e
ProviderRaises(t, e) ==
    /\ ScanFrame
    /\ spc[t] = "find"
    /\ UNCHANGED varsGather
    /\ QueryRaised(t, e)
    /\ AfterFind(t, sop[t], slog[t])

\* ... raises another exception
ProviderCrashes(t) ==
    /\ ScanFrame
    /\ spc[t] = "find"
    /\ UNCHANGED varsGather
    /\ QueryCrashed(t)
    /\ AfterFind(t, sop[t], slog[t])

\* Is the file of task t an entry of the subdirectory?
InSub(t) == Dirname(files[t]) = PathJoin(ScanDir, SubDir)

\* sort.py:238-239, 259  the Operations of the children of one directory that
\* are files, in the order of the tasks; a None (no Operation) is left out
RECURSIVE Gathered(_, _, _)
Gathered(ops, i, sub) ==
    IF i > Len(TaskOrder) THEN <<>>
    ELSE (IF InSub(TaskOrder[i]) # sub \/ IsNone(ops[TaskOrder[i]]) THEN <<>>
          ELSE <<ops[TaskOrder[i]]>>)
            \o Gathered(ops, i + 1, sub)

\* A gather that does not wait for the children.
GatherAnyhow(sub) == TRUE

\* sort.py:237  results = await asyncio.gather(*tasks): gather hands back the
\* results once every child has returned: the files of the directory, and
\* for the scanned directory its subdirectory
GatherDone(sub) ==
    /\ \A t \in Resolvers : InSub(t) = sub => sret[t] = "returned"
    /\ sub \/ subpc \in {"none", "returned"}

\* A child has raised.
ChildRaised(sub) ==
    \/ \E t \in Resolvers : InSub(t) = sub /\ sret[t] = "raised"
    \/ ~sub /\ subpc = "raised"

\* sort.py:237-239, 259  every scan(child) of the subdirectory has returned:
\* scan(subdirectory) returns the Operations
SubGatherReturns ==
    /\ ScanFrame
    /\ subpc = "gather"
    /\ GatherDone(TRUE)
    /\ subpc' = "returned"
    /\ subops' = Gathered(sop, 1, TRUE)
    /\ UNCHANGED <<scanpc, operations, varsSuggest, varsResolve, memory, inserted>>

\* sort.py:237  a scan(child) of the subdirectory has raised: gather raises in
\* scan(subdirectory), which has no handler
SubGatherRaises ==
    /\ ScanFrame
    /\ subpc = "gather"
    /\ ChildRaised(TRUE)
    /\ subpc' = "raised"
    /\ UNCHANGED <<scanpc, operations, subops, varsSuggest, varsResolve, memory, inserted>>

\* sort.py:237-239, 259  every scan(child) has returned: gather hands back the
\* results and scan(directory) returns the Operations, those of the
\* subdirectory (the last entry) last
GatherReturns ==
    /\ ScanFrame
    /\ scanpc = "gather"
    /\ GatherDone(FALSE)
    /\ scanpc' = "returned"
    /\ operations' = Gathered(sop, 1, FALSE) \o subops
    /\ UNCHANGED <<subpc, subops, varsSuggest, varsResolve, memory, inserted>>

\* sort.py:237  a scan(child) has raised: gather raises in scan(directory),
\* which has no handler
GatherRaises ==
    /\ ScanFrame
    /\ scanpc = "gather"
    /\ ChildRaised(FALSE)
    /\ scanpc' = "raised"
    /\ UNCHANGED <<operations, subpc, subops, varsSuggest, varsResolve, memory, inserted>>

ScanNext ==
    \/ \E t \in Resolvers : ScanFile(t)
    \/ \E t \in Resolvers : ProviderReturns(t)
    \/ \E t \in Resolvers, e \in QueryErrors : ProviderRaises(t, e)
    \/ \E t \in Resolvers : ProviderCrashes(t)
    \/ GatherReturns
    \/ GatherRaises
    \/ SubGatherReturns
    \/ SubGatherRaises

(***************************************************************************)
(* metadata.py: MetadataApi.try_harder and clean_search_term               *)
(***************************************************************************)

\* The providers whose query calls try_harder.
TryApis == {"tvmaze", "tmdb"}

\* The search_term values passed: titles of 0..3 words.
SearchTerms ==
    {"", "x", "the", "x y", "the x", "x the", "it's x", "' x",
     "x y z", "the x the", "x the y", "the+x y z"}

\* The min_len values passed (query passes none: the default is 1).
MinLens == {1, 2}

\* str.split(): the words of a string of words and blanks
Words(string) == SplitWords(string, " ")

\* re.match('^[Tt]he$', word)
IsThe(word) == word \in {"the", "The"}
NotThe(word) == ~IsThe(word)

\* metadata.py:209-224  parts = string.split() (or [string]); every "the"
\* but a leading one is dropped
CleanParts(parts) ==
    IF IsThe(parts[1]) THEN <<parts[1]>> \o SelectSeq(Tail(parts), NotThe)
    ELSE SelectSeq(parts, NotThe)

\* re.sub(pat, "", s, 1)
SubFirst(pat, s) ==
    IF Search(pat, s).ok
    THEN SubSeq(s, 1, Search(pat, s).start - 1)
             \o SubSeq(s, Search(pat, s).end, Len(s))
    ELSE s

\* metadata.py:209-232  MetadataApi.clean_search_term (TvMaze inherits it)
\* metadata.py:381-393  TMDB.clean_search_term: re.sub("[Tt]he\+", "", s, 1)
\* Both are called without overrides and drop every apostrophe.
clean_search_term(provider, string) ==
    IF provider = "tmdb"
    THEN RemoveChars(SubFirst(<<Cls({"T", "t"}, 1, 1, 0), Lit("h"), Lit("e"),
                               Lit("+")>>, string), {"'"})
    ELSE RemoveChars(Join(CleanParts(IF Words(string) = <<>> THEN <<string>>
                                     ELSE Words(string)), " "), {"'"})

\* The MetadataQueryError an attempt ended with, raised by async_fetch_json
\* or by the validation function.
AttemptError(try_index, raised_by) ==
    [error |-> "MetadataQueryError", try_index |-> try_index,
     raised_by |-> raised_by]

\* metadata.py:207  MetadataQueryError("No exception provided, query failed...")
NoExceptionProvided == AttemptError(0, "try_harder")

IsQueryError(v) == "error" \in DOMAIN v /\ v.error = "MetadataQueryError"

\* A relaxation that surfaces the error of the last attempt.
KeepLast(to_be_raised, e) == e

\* metadata.py:196-197  if not to_be_raised: to_be_raised = e
KeepFirst(to_be_raised, e) == IF IsNone(to_be_raised) THEN e ELSE to_be_raised

\* A relaxation that goes on while a word is left.
WhileAnyWord(split, min_len) == Len(split) >= 1

\* metadata.py:182  while len(split) >= min_len
WhileLongEnough(split, min_len) == Len(split) >= min_len

\* metadata.py:199  " ".join(split[:-1])
DropLastWord(split) == Join(SubSeq(split, 1, Len(split) - 1), " ")

\* One attempt of the log.
Attempt(call, outcome) ==
    [try_index |-> call.try_index,
     search_term |-> Join(Words(call.search_term), " "),
     search_title |-> clean_search_term(call.api, Join(Words(call.search_term), " ")),
     outcome |-> outcome]

Pending == [pending |-> TRUE]
Validated == [validated |-> TRUE]
Crash == [error |-> "Exception"]

Logged(outcome) == tlog' = [tlog EXCEPT ![Len(tlog)].outcome = outcome]

TryIdle ==
    /\ tpc = "idle"
    /\ tcall = NoneVal
    /\ targs = NoneVal
    /\ tlog = <<>>
    /\ tret = NoneVal

\* query awaits try_harder(search_term=title, ...)  (metadata.py:326, 456);
\* to_be_raised and try_index take their defaults.
TryCall(provider, search_term, min_len) ==
    /\ TryFrame
    /\ tpc = "idle"
    /\ tpc' = "enter"
    /\ tcall' = [api |-> provider, search_term |-> search_term,
                 to_be_raised |-> NoneVal, try_index |-> 1, min_len |-> min_len]
    /\ targs' = [api |-> provider, search_term |-> search_term, min_len |-> min_len]
    /\ tlog' = <<>>
    /\ tret' = NoneVal

\* metadata.py:180-189  the term is long enough: it is cleaned and fetched
TryAttempt ==
    /\ TryFrame
    /\ tpc = "enter"
    /\ WhileLongEnough(Words(tcall.search_term), tcall.min_len)
    /\ tpc' = "await"
    /\ tlog' = Append(tlog, Attempt(tcall, Pending))
    /\ UNCHANGED <<tcall, targs, tret>>

\* metadata.py:207  the term is too short: raise to_be_raised or a new error
TryGiveUp ==
    /\ TryFrame
    /\ tpc = "enter"
    /\ ~WhileLongEnough(Words(tcall.search_term), tcall.min_len)
    /\ tpc' = "done"
    /\ tret' = IF IsNone(tcall.to_be_raised) THEN NoExceptionProvided
               ELSE tcall.to_be_raised
    /\ UNCHANGED <<tcall, targs, tlog>>

\* metadata.py:189-194  the response is fetched and the validation function
\* returns: every activation returns that value
TryValidated ==
    /\ TryFrame
    /\ tpc = "await"
    /\ tpc' = "done"
    /\ tret' = [value |-> tlog[Len(tlog)].search_title,
                try_index |-> tcall.try_index]
    /\ Logged(Validated)
    /\ UNCHANGED <<tcall, targs>>

\* metadata.py:195-205  async_fetch_json or the validation function raises
\* MetadataQueryError: try_harder calls itself without the last word
TryRejected(raised_by) ==
    /\ TryFrame
    /\ tpc = "await"
    /\ tpc' = "enter"
    /\ tcall' = [tcall EXCEPT
           !.search_term = DropLastWord(Words(tcall.search_term)),
           !.to_be_raised = KeepFirst(@, AttemptError(tcall.try_index, raised_by)),
           !.try_index = @ + 1]
    /\ Logged(AttemptError(tcall.try_index, raised_by))
    /\ UNCHANGED <<targs, tret>>

\* Any other exception of the fetch or the validation (a connection failure,
\* a KeyError on the response) is not caught and ends every activation.
TryCrashed ==
    /\ TryFrame
    /\ tpc = "await"
    /\ tpc' = "done"
    /\ tret' = Crash
    /\ Logged(Crash)
    /\ UNCHANGED <<tcall, targs>>

\* query takes the outcome; the provider may be queried again.
TryFinish ==
    /\ TryFrame
    /\ tpc = "done"
    /\ tpc' = "idle"
    /\ tcall' = NoneVal
    /\ targs' = NoneVal
    /\ tlog' = <<>>
    /\ tret' = NoneVal

TryNext ==
    \/ \E provider \in TryApis, search_term \in SearchTerms, min_len \in MinLens :
           TryCall(provider, search_term, min_len)
    \/ TryAttempt
    \/ TryGiveUp
    \/ TryValidated
    \/ \E raised_by \in {"async_fetch_json", "validation_func"} : TryRejected(raised_by)
    \/ TryCrashed
    \/ TryFinish

(***************************************************************************)
(* sort.py: the providers of concurrent find_* calls and their semaphores  *)
(***************************************************************************)

\* The files of one scanned directory: asyncio.gather resolves them
\* concurrently (sort.py:228-238).  One more than there are permits.
QueryFiles == 1..(max_concurrent_requests + 1)

\* The files whose HTTP request is in flight.
InFlight == {f \in QueryFiles : qpc[f] = "in_flight"}

PermitsIdle ==
    /\ qpc = [f \in QueryFiles |-> "idle"]
    /\ qsem = [f \in QueryFiles |-> -1]

\* sort.py:270, 293  provider = provider_cls(api, ...): find_* constructs a
\* provider of its own, and metadata.py:98 gives that provider a semaphore of
\* its own.  gather starts its tasks in list order, and a task runs up to
\* semaphore.acquire without suspending.
ConstructProvider(f) ==
    /\ PermitsFrame
    /\ qpc[f] = "idle"
    /\ \A g \in QueryFiles : g < f => qpc[g] # "idle"
    /\ qpc' = [qpc EXCEPT ![f] = "acquire"]
    /\ qsem' = [qsem EXCEPT ![f] = max_concurrent_requests]

\* metadata.py:143  await self.semaphore.acquire(): waits while the provider's
\* semaphore has no free permit; then the GET is sent.
AcquirePermit(f) ==
    /\ PermitsFrame
    /\ qpc[f] = "acquire"
    /\ qsem[f] > 0
    /\ qpc' = [qpc EXCEPT ![f] = "in_flight"]
    /\ qsem' = [qsem EXCEPT ![f] = @ - 1]

\* metadata.py:155-156  the response is there; finally: self.semaphore.release()
ReleasePermit(f) ==
    /\ PermitsFrame
    /\ qpc[f] = "in_flight"
    /\ qpc' = [qpc EXCEPT ![f] = "released"]
    /\ qsem' = [qsem EXCEPT ![f] = @ + 1]

PermitsNext ==
    \/ \E f \in QueryFiles : ConstructProvider(f)
    \/ \E f \in QueryFiles : AcquirePermit(f)
    \/ \E f \in QueryFiles : ReleasePermit(f)

(***************************************************************************)
(* sort.py: MediaSorter.commit_all and OperationHandler.pre_commit/commit  *)
(***************************************************************************)

\* The destination paths of the Operations.
OutputPaths == {"/tv/a.mkv", "/movies/b.mkv"}

\* The error an Operation carries out of scan.
ScanError == [error |-> "MediaSorterError"]

\* sort.py:76  CantSortError("Destination path missing.")
DestinationMissing == [error |-> "CantSortError", msg |-> "Destination path missing."]

\* sort.py:84-86  CantSortError("Destination file ... exists, overwrite not allowed.")
DestinationExists == [error |-> "CantSortError", msg |-> "exists, overwrite not allowed"]

\* The Operations commit_all may be given: with or without output path
\* (scan leaves it None on an error), with or without error.
CommitOperations ==
    {[output_path |-> o, exception |-> e] :
        o \in {NoneVal} \cup {StrVal(x) : x \in OutputPaths},
        e \in {NoneVal, ScanError}}

\* How Executable.commit and the steps after it end (sort.py:94-167): all
\* went well; Executable.commit raised ExecutionError (execute.py:35-51), or
\* the check of user and group before it failed, and nothing was put at the
\* destination; a step after the executor raised (sort.py:100-153), with the
\* new file at the destination.
ExecutorOutcomes == {"ok", "ExecutionError", "Exception"}

CommitIdle ==
    /\ commitpc = "idle"
    /\ cops = <<>>
    /\ cidx = 1
    /\ disk = {}
    /\ overwrite = FALSE

\* commit_all(operations) is called with a list of two Operations
\* (sort.py:460-462).
CommitInit ==
    /\ commitpc = "loop"
    /\ cops \in [1..2 -> CommitOperations]
    /\ cidx = 1
    /\ disk \in SUBSET OutputPaths
    /\ overwrite \in BOOLEAN

\* sort.py:75-76  if not self.op.output_path: self.op.exception = CantSortError
MissingPath(op) ==
    IF IsNone(op.output_path) \/ op.output_path = StrVal("")
    THEN [op EXCEPT !.exception = DestinationMissing]
    ELSE op

\* sort.py:78  os.path.exists(self.op.output_path): os.stat(None) raises
\* TypeError, which os.path.exists does not catch
ExistsTestRaises(op) == IsNone(op.output_path)

\* sort.py:78-86  the destination exists: it is removed, or the Operation
\* gets an error
ExistingPath(op) ==
    IF op.output_path.str \in disk /\ ~overwrite
    THEN [op EXCEPT !.exception = DestinationExists]
    ELSE op

Commits(op) == cops' = [cops EXCEPT ![cidx] = op] /\ cidx' = cidx + 1

\* sort.py:462, 88-89, 74-78  commit -> pre_commit raises at os.path.exists:
\* the exception leaves commit and commit_all
CommitRaises ==
    /\ CommitFrame
    /\ commitpc = "loop" /\ cidx <= Len(cops)
    /\ ExistsTestRaises(cops[cidx])
    /\ commitpc' = "raised"
    /\ cops' = [cops EXCEPT ![cidx] = MissingPath(@)]
    /\ UNCHANGED <<cidx, disk, overwrite>>

\* sort.py:88-91  pre_commit returns and the Operation has an error (its own
\* or the one of pre_commit): commit returns; an existing destination was
\* removed if options.overwrite is set
CommitSkips ==
    /\ CommitFrame
    /\ commitpc = "loop" /\ cidx <= Len(cops)
    /\ ~ExistsTestRaises(cops[cidx])
    /\ ~IsNone(ExistingPath(MissingPath(cops[cidx])).exception)
    /\ Commits(ExistingPath(MissingPath(cops[cidx])))
    /\ disk' = IF overwrite THEN disk \ {cops[cidx].output_path.str} ELSE disk
    /\ UNCHANGED <<commitpc, overwrite>>

\* sort.py:93-167  the Operation has no error: the executor runs; an
\* exception of it or of the steps after it is stored on the Operation
CommitExecutes(outcome) ==
    /\ CommitFrame
    /\ commitpc = "loop" /\ cidx <= Len(cops)
    /\ ~ExistsTestRaises(cops[cidx])
    /\ IsNone(ExistingPath(MissingPath(cops[cidx])).exception)
    /\ Commits(IF outcome = "ok" THEN cops[cidx]
               ELSE [cops[cidx] EXCEPT !.exception = [error |-> outcome]])
    /\ disk' = IF outcome = "ExecutionError"
               THEN disk \ {cops[cidx].output_path.str}
               ELSE disk \cup {cops[cidx].output_path.str}
    /\ UNCHANGED <<commitpc, overwrite>>

\* sort.py:463  return operations
CommitAllReturns ==
    /\ CommitFrame
    /\ commitpc = "loop" /\ cidx > Len(cops)
    /\ commitpc' = "returned"
    /\ UNCHANGED <<cops, cidx, disk, overwrite>>

CommitNext ==
    \/ CommitRaises
    \/ CommitSkips
    \/ \E outcome \in ExecutorOutcomes : CommitExecutes(outcome)
    \/ CommitAllReturns

(***************************************************************************)
(* parse.py: the title clean-up of the two parsers, applied twice          *)
(***************************************************************************)

\* The file names parsed.
CleanFiles ==
    {"Show.S01E02.mkv", "My.Show.05.mkv", "Movie.Name.2020.mkv", "Film.mkv",
     "The Show (2019) S01E02.mkv", "Show [x] S01E02.mkv", "A.B.S01E02.mkv",
     "Show 1984 1982 S01E02.mkv", "Film 1984 1982 2020.mkv",
     "Film [x] (2020).mkv", "Film (1999) 2020.mkv", "a_b_E05.avi"}

\* How a file is parsed: as by suggest_tv_show without and with force
\* (sort.py:311, 319), or as by suggest_movie (sort.py:360).
CleanKinds == {"tv", "tv_forced", "movie"}

\* The results of the parser of the kind.
ParsedAs(in) ==
    IF in.kind = "movie"
    THEN parse_movie_name(in.src_path, split_characters, in.min_split_length,
                          metainfo_map)
    ELSE parse_season_and_episode(in.src_path, split_characters,
                                  in.min_split_length, in.kind = "tv_forced")

\* parse.py:257-259, 284-286  the clean-up of a title: lower-cased, then the
\* CLEAN_PATTERNS removed (and the title stripped after each, for a TV title)
Cleanup(kind, title) == Clean(Lower(title), 1, kind # "movie")

CleanIdle ==
    /\ clean_in = NoneVal
    /\ clean_title = NoneVal
    /\ clean_again = NoneVal

CleanInit ==
    /\ clean_in \in [src_path : {PathJoin(ScanDir, f) : f \in CleanFiles},
                     kind : CleanKinds,
                     min_split_length : MinSplitLengths]
    /\ clean_title = NoneVal
    /\ clean_again = NoneVal

\* The parser returns a title.
ParseTitle ==
    /\ CleanFrame
    /\ clean_title = NoneVal
    /\ \E parsed \in ParsedAs(clean_in) :
          /\ parsed.raised = ""
          /\ clean_title' = StrVal(parsed.name)
    /\ UNCHANGED <<clean_in, clean_again>>

\* The clean-up is applied to the title the parser returned.
CleanAgain ==
    /\ CleanFrame
    /\ clean_title # NoneVal
    /\ clean_again = NoneVal
    /\ clean_again' = StrVal(Cleanup(clean_in.kind, clean_title.str))
    /\ UNCHANGED <<clean_in, clean_title>>

CleanNext ==
    \/ ParseTitle
    \/ CleanAgain

(***************************************************************************)
(* metadata.py: TvMaze._match_tv_show                                      *)
(***************************************************************************)

\* An episode of the payload: 'season' is an int, 'number' an int or None (a
\* special), 'airdate' an ISO date, modelled by its rank in string order.
Episode(season, number, airdate) ==
    [season |-> season, number |-> number, airdate |-> airdate]

EpisodePool ==
    { Episode(1, NoneVal, 2), Episode(1, NoneVal, 1), Episode(1, IntVal(1), 3),
      Episode(2, IntVal(1), 1), Episode(1, IntVal(3), 1) }

MaxEmbedded == 1
MaxAlternate == 3
SeasonIds == {1}
EpisodeIds == 0..3

ListsUpTo(S, n) == UNION {[1..k -> S] : k \in 0..n}

\* metadata.py:279-283  find_episode: the first episode of the list with the
\* season and the number asked for, None without one
RECURSIVE find_episode(_, _, _, _)
find_episode(e_list, i, season_id, episode_id) ==
    IF i > Len(e_list) THEN NoneVal
    ELSE IF e_list[i].season = season_id /\ e_list[i].number = IntVal(episode_id)
         THEN e_list[i]
         ELSE find_episode(e_list, i + 1, season_id, episode_id)

\* metadata.py:300  list(filter(lambda e: e["season"] == season_id, ...))
SeasonOnly(episode_list, season_id) ==
    SelectSeq(episode_list, LAMBDA e : e.season = season_id)

\* list.sort(key=...): a stable sort, here by insertion
RECURSIVE InsertByAirdate(_, _, _)
InsertByAirdate(sorted, e, i) ==
    IF i > Len(sorted) THEN Append(sorted, e)
    ELSE IF e.airdate < sorted[i].airdate
         THEN SubSeq(sorted, 1, i - 1) \o <<e>> \o SubSeq(sorted, i, Len(sorted))
         ELSE InsertByAirdate(sorted, e, i + 1)

RECURSIVE SortFrom(_, _, _)
SortFrom(list, i, sorted) ==
    IF i > Len(list) THEN sorted
    ELSE SortFrom(list, i + 1, InsertByAirdate(sorted, list[i], 1))

\* metadata.py:305  season_only.sort(key=lambda e: e["airdate"])
SortByAirdate(list) == SortFrom(list, 1, <<>>)

\* list[i] of Python, 0-based, a negative index counting from the end
PyIndex(list, i) == IF i >= 0 THEN list[i + 1] ELSE list[Len(list) + i + 1]

EpisodeReturned(episode, stage) == [returned |-> episode, stage |-> stage]
NoEpisodesInSeason ==
    [raised |-> "MetadataQueryError", msg |-> "NO episodes in requested season"]
EpisodeNotFound ==
    [raised |-> "MetadataQueryError", msg |-> "can't be found"]
FetchFailed == [raised |-> "ClientError"]

\* metadata.py:300-311  the last try, by position in the season
Positional(episode_list, season_id, episode_id) ==
    IF SeasonOnly(episode_list, season_id) = <<>> THEN NoEpisodesInSeason
    ELSE IF Len(SeasonOnly(episode_list, season_id)) >= episode_id
         THEN EpisodeReturned(
                  PyIndex(SortByAirdate(SeasonOnly(episode_list, season_id)),
                          episode_id - 1), "positional")
         ELSE EpisodeNotFound

\* metadata.py:296-311  what the call does with the list of the alternative URL
FromAlternate(episode_list, season_id, episode_id) ==
    IF ~IsNone(find_episode(episode_list, 1, season_id, episode_id))
    THEN EpisodeReturned(find_episode(episode_list, 1, season_id, episode_id),
                         "alternate")
    ELSE Positional(episode_list, season_id, episode_id)

\* A validation that asks the alternative URL whatever the embedded list holds.
TriesAlternateAnyhow(correct_episode, links) == links

\* metadata.py:287,290  if not correct_episode: if series_data.get("_links")
\* and series_data["_links"].get("self")
TriesAlternate(correct_episode, links) == IsNone(correct_episode) /\ links

EmbeddedMatch == find_episode(vin.episodes, 1, vin.season_id, vin.episode_id)

TvMatchIdle ==
    /\ vpc = "idle"
    /\ vin = NoneVal
    /\ valt = NoneVal
    /\ vret = NoneVal

\* _match_tv_show(series_data, search_title, season_id, episode_id) is called.
TvMatchInit ==
    /\ vpc = "embedded"
    /\ vin \in [episodes : ListsUpTo(EpisodePool, MaxEmbedded), links : BOOLEAN,
                season_id : SeasonIds, episode_id : EpisodeIds]
    /\ valt = NoneVal
    /\ vret = NoneVal

\* metadata.py:285-286,313-318  the embedded list holds the episode
EmbeddedFinds ==
    /\ vpc = "embedded"
    /\ ~IsNone(EmbeddedMatch)
    /\ vret' = EpisodeReturned(EmbeddedMatch, "embedded")
    /\ vpc' = "done"
    /\ UNCHANGED <<vin, valt>>
    /\ TvMatchFrame

\* metadata.py:287-290,313-317  no episode and no link to the show
EmbeddedGivesUp ==
    /\ vpc = "embedded"
    /\ IsNone(EmbeddedMatch)
    /\ ~vin.links
    /\ vret' = EpisodeNotFound
    /\ vpc' = "done"
    /\ UNCHANGED <<vin, valt>>
    /\ TvMatchFrame

\* metadata.py:290-294  await self.async_fetch_json(alternative_url)
FetchAlternate ==
    /\ vpc = "embedded"
    /\ TriesAlternate(EmbeddedMatch, vin.links)
    /\ vpc' = "alternate"
    /\ UNCHANGED <<vin, valt, vret>>
    /\ TvMatchFrame

\* metadata.py:294-318  the alternative URL answers with an episode list
AlternateReturns ==
    /\ vpc = "alternate"
    /\ \E episode_list \in ListsUpTo(EpisodePool, MaxAlternate) :
          /\ valt' = [episodes |-> episode_list]
          /\ vret' = FromAlternate(episode_list, vin.season_id, vin.episode_id)
    /\ vpc' = "done"
    /\ UNCHANGED vin
    /\ TvMatchFrame

\* metadata.py:294  the fetch raises; nothing in _match_tv_show catches it
AlternateRaises ==
    /\ vpc = "alternate"
    /\ valt' = FetchFailed
    /\ vret' = FetchFailed
    /\ vpc' = "done"
    /\ UNCHANGED vin
    /\ TvMatchFrame

TvMatchNext ==
    \/ EmbeddedFinds
    \/ EmbeddedGivesUp
    \/ FetchAlternate
    \/ AlternateReturns
    \/ AlternateRaises

(***************************************************************************)
(* metadata.py: TMDB._match_movie                                          *)
(***************************************************************************)

\* A result of the search payload; release_date and popularity are NoneVal
\* when the key is absent from the result.
MovieResult(title, original_title, release_date, popularity) ==
    [title |-> title, original_title |-> original_title,
     release_date |-> release_date, popularity |-> popularity]

MovieResultPool ==
    { MovieResult("Up", "Up", StrVal("2001-05-01"), IntVal(50)),
      MovieResult("Up", "Oben", StrVal("2002-01-01"), IntVal(5)),
      MovieResult("Fast & Furious", "Fast & Furious", StrVal("1999-12-31"), NoneVal),
      MovieResult("Heat", "Heat", NoneVal, IntVal(10)),
      MovieResult("Heat", "Heat", StrVal(""), IntVal(50)) }

MaxResults == 3
MovieSearchTerms == {"up", "me & you", "the heat"}
MovieSearchYears == {NoneVal, IntVal(2000)}

ALPHANUM == "0123456789abcdefghijklmnopqrstuvwxyzABCDEFGHIJKLMNOPQRSTUVWXYZ"
IsAlphanum(c) == \E i \in 1..Len(ALPHANUM) : Ch(ALPHANUM, i) = c

\* utils.py:5-6  re.sub('[^0-9a-zA-Z]+', '', string)
RECURSIVE replace_non_alphanum(_)
replace_non_alphanum(string) ==
    IF Len(string) = 0 THEN ""
    ELSE (IF IsAlphanum(Ch(string, 1)) THEN Ch(string, 1) ELSE "")
             \o replace_non_alphanum(SubSeq(string, 2, Len(string)))

\* utils.py:9-13  split_and_lower(string, alphanum_only=True): the words of
\* string.lower().split(), each without its other characters (a word of such
\* characters only becomes the empty string and stays in the list)
split_and_lower(string) ==
    [i \in DOMAIN SplitWords(Lower(string), " ") |->
        replace_non_alphanum(SplitWords(Lower(string), " ")[i])]

\* str.split('-')[0]
FirstField(string) ==
    IF \E i \in 1..Len(string) : Ch(string, i) = "-"
    THEN SubSeq(string, 1, SetMin({i \in 1..Len(string) : Ch(string, i) = "-"}) - 1)
    ELSE string

AllDigits(string) ==
    string # "" /\ \A i \in 1..Len(string) : Ch(string, i) \in Digits

\* metadata.py:395-400  _parse_release_year: the year of release_date
\* ('0000-00-00' without the key), 0 when int() raises ValueError
parse_release_year(movie_data) ==
    IF IsNone(movie_data.release_date) THEN 0
    ELSE IF AllDigits(FirstField(movie_data.release_date.str))
         THEN ToInt(FirstField(movie_data.release_date.str))
         ELSE 0

Abs(n) == IF n < 0 THEN 0 - n ELSE n

\* metadata.py:414  abs(self._parse_release_year(res) - search_year) < 2
InYearWindow(res, search_year) == Abs(parse_release_year(res) - search_year) < 2

\* metadata.py:418  item.get("popularity", 100) > 10
Popular(item) == IF IsNone(item.popularity) THEN 100 > 10 ELSE item.popularity.int > 10

\* metadata.py:411  `if search_year:` (None and 0 are false)
YearKnown(search_year) == IsInt(search_year) /\ search_year.int # 0

\* A validation that guesses however many results remain.
TooManyNever(list) == FALSE

\* metadata.py:417,419  len(...) > 2
TooMany(list) == Len(list) > 2

\* metadata.py:410-418  new_result_list before the tests on its length
Candidates(result_list, search_year) ==
    IF YearKnown(search_year)
    THEN SelectSeq(result_list, LAMBDA res : InYearWindow(res, search_year.int))
    ELSE IF TooMany(result_list) THEN SelectSeq(result_list, Popular)
    ELSE result_list

ResultsEmpty == [raised |-> "MetadataQueryError", msg |-> "Results list is empty."]
TooManyResults == [raised |-> "MetadataQueryError", msg |-> "too many results"]
YearNotFound == [raised |-> "MetadataQueryError", msg |-> "requested year not found"]
Nonsense == [raised |-> "MetadataQueryError", msg |-> "probably a nonsense"]
FormatKeyError == [raised |-> "KeyError", msg |-> "release_date"]

\* metadata.py:427  '{title}/{release_date}'.format(**mov) for every result:
\* str.format raises KeyError for a result without the key
MessageFormats(result_list) ==
    \A i \in DOMAIN result_list : ~IsNone(result_list[i].release_date)

\* metadata.py:437-440  any([t in actual_terms for t in search_terms])
SharesTerm(search_term, probable_result) ==
    \E i \in DOMAIN split_and_lower(search_term) :
        \E j \in DOMAIN (split_and_lower(probable_result.original_title)
                             \o split_and_lower(probable_result.title)) :
            split_and_lower(search_term)[i] =
                (split_and_lower(probable_result.original_title)
                     \o split_and_lower(probable_result.title))[j]

\* metadata.py:429-445  the first candidate, after the check of its titles
Probable(probable_result, search_term) ==
    IF SharesTerm(search_term, probable_result)
    THEN [returned |-> <<probable_result.title, parse_release_year(probable_result)>>,
          result |-> probable_result]
    ELSE Nonsense

\* metadata.py:402-445  _match_movie(movie_data, search_term, search_year)
match_movie(result_list, search_term, search_year) ==
    IF result_list = <<>> THEN ResultsEmpty
    ELSE IF ~YearKnown(search_year) /\ TooMany(result_list)
            /\ TooMany(Candidates(result_list, search_year))
    THEN TooManyResults
    ELSE IF Candidates(result_list, search_year) = <<>>
    THEN (IF MessageFormats(result_list) THEN YearNotFound ELSE FormatKeyError)
    ELSE Probable(Candidates(result_list, search_year)[1], search_term)

MovieMatchIdle ==
    /\ mm_in = NoneVal
    /\ mm_out = NoneVal

\* The validation is about to be called on a payload.
MovieMatchInit ==
    /\ mm_in \in [results : ListsUpTo(MovieResultPool, MaxResults),
                  search_term : MovieSearchTerms, search_year : MovieSearchYears]
    /\ mm_out = NoneVal

\* metadata.py:402-445  the call returns or raises
MatchMovie ==
    /\ ~IsNone(mm_in)
    /\ IsNone(mm_out)
    /\ mm_out' = match_movie(mm_in.results, mm_in.search_term, mm_in.search_year)
    /\ UNCHANGED mm_in
    /\ MovieMatchFrame

MovieMatchNext ==
    \/ MatchMovie

(***************************************************************************)
(* metadata.py: TMDB.async_fetch_json                                      *)
(***************************************************************************)

\* metadata.py:355
max_pages == 5

MaxTotalPages == 7

\* The payload of a page: 'total_pages' and 'results' are NoneVal when the key
\* is absent; a result is written as the number of the page it came with.
Page(total_pages, results) == [total_pages |-> total_pages, results |-> results]
ResultsOf(page) ==
    {NoneVal, [items |-> <<>>], [items |-> <<page>>]}
FirstPages ==
    {Page(total_pages, results) :
        total_pages \in {NoneVal} \cup {IntVal(n) : n \in 0..MaxTotalPages},
        results \in ResultsOf(1)}

\* metadata.py:364  result.get("total_pages", 0)
TotalPages(result) ==
    IF IsNone(result.total_pages) THEN 0 ELSE result.total_pages.int

\* `not result.get("results")`: no key or an empty list
NoResults(result) == IsNone(result.results) \/ result.results.items = <<>>

\* metadata.py:365  if total_pages <= 1 or not result.get("results")
SinglePage(result) == TotalPages(result) <= 1 \/ NoResults(result)

\* A paged fetch that goes on to the last page the service reports.
LastPageReported(total_pages) == total_pages

\* metadata.py:369  self.max_pages if total_pages >= self.max_pages else
\* total_pages
LastPage(total_pages) ==
    IF total_pages >= max_pages THEN max_pages ELSE total_pages

\* metadata.py:372-373  result.get("results").extend(next_results), when the
\* page has results
Extended(result, next_page_data) ==
    IF NoResults(next_page_data) THEN result
    ELSE [result EXCEPT !.results.items = @ \o next_page_data.results.items]

PageFetchFailed == [raised |-> "MetadataQueryError"]

\* The calls of TMDB.async_fetch_json made on one URL.
MaxCalls == 2

\* metadata.py:114-129  @AsyncLRU: request() keeps the object it returned
\* under its URL and hands the same object to every later request of the URL.
StorePage(store, page, payload) ==
    IF page \in DOMAIN store THEN store
    ELSE [x \in DOMAIN store \cup {page} |->
             IF x = page THEN [stored |-> payload, now |-> payload] ELSE store[x]]

\* What request() answers for page 1 and for a further page: the stored
\* object, or a payload of the service.
FirstPageAnswers ==
    IF 1 \in DOMAIN pgstore THEN {pgstore[1].now} ELSE FirstPages
NextPageAnswers(page) ==
    IF page \in DOMAIN pgstore THEN {pgstore[page].now}
    ELSE {Page(NoneVal, results) : results \in ResultsOf(page)}

\* metadata.py:363, 373  `result` is the object request() returned for page 1:
\* extending its list extends the object the URL cache holds.
Aliased(store, result) == [store EXCEPT ![1].now = result]

PagesIdle ==
    /\ pgpc = "idle"
    /\ pgfirst = NoneVal
    /\ pglog = <<>>
    /\ pgret = NoneVal
    /\ pgstore = EmptyMap
    /\ pgcalls = <<>>

\* metadata.py:363  TMDB.async_fetch_json(url) awaits the fetch of the URL
\* itself, the first page.
PagesInit ==
    /\ pgpc = "first"
    /\ pgfirst = NoneVal
    /\ pglog = <<1>>
    /\ pgret = NoneVal
    /\ pgstore = EmptyMap
    /\ pgcalls = <<>>

\* metadata.py:363-370  the first page answers: return it, or ask for page 2
FirstPageReturns ==
    /\ pgpc = "first"
    /\ \E result \in FirstPageAnswers :
          /\ pgfirst' = result
          /\ pgstore' = StorePage(pgstore, 1, result)
          /\ IF SinglePage(result) \/ ~(2 <= LastPage(TotalPages(result)))
             THEN pgpc' = "done" /\ pgret' = [returned |-> result]
                    /\ UNCHANGED pglog
             ELSE pgpc' = "next" /\ pglog' = Append(pglog, 2)
                    /\ UNCHANGED pgret
    /\ UNCHANGED pgcalls
    /\ PagesFrame

\* metadata.py:363  the fetch of the first page raises
FirstPageRaises ==
    /\ pgpc = "first"
    /\ 1 \notin DOMAIN pgstore
    /\ pgpc' = "done"
    /\ pgret' = PageFetchFailed
    /\ UNCHANGED <<pgfirst, pglog, pgstore, pgcalls>>
    /\ PagesFrame

\* metadata.py:369-375  page next_page answers: merge it, ask for the next
\* page or return
NextPageReturns ==
    /\ pgpc = "next"
    /\ \E next_page_data \in NextPageAnswers(Len(pglog)) :
          /\ pgfirst' = Extended(pgfirst, next_page_data)
          /\ pgstore' = Aliased(StorePage(pgstore, Len(pglog), next_page_data),
                                Extended(pgfirst, next_page_data))
          /\ IF Len(pglog) + 1 <= LastPage(TotalPages(pgfirst))
             THEN pglog' = Append(pglog, Len(pglog) + 1)
                    /\ UNCHANGED <<pgpc, pgret>>
             ELSE pgpc' = "done"
                    /\ pgret' = [returned |-> Extended(pgfirst, next_page_data)]
                    /\ UNCHANGED pglog
    /\ UNCHANGED pgcalls
    /\ PagesFrame

\* metadata.py:370  the fetch of a further page raises
NextPageRaises ==
    /\ pgpc = "next"
    /\ Len(pglog) \notin DOMAIN pgstore
    /\ pgpc' = "done"
    /\ pgret' = PageFetchFailed
    /\ UNCHANGED <<pgfirst, pglog, pgstore, pgcalls>>
    /\ PagesFrame

\* The call is over; TMDB.async_fetch_json is called on the same URL again
\* (metadata.py:357-363).
FetchAgain ==
    /\ pgpc = "done"
    /\ Len(pgcalls) < MaxCalls - 1
    /\ pgcalls' = Append(pgcalls, pgret)
    /\ pgpc' = "first"
    /\ pgfirst' = NoneVal
    /\ pglog' = <<1>>
    /\ pgret' = NoneVal
    /\ UNCHANGED pgstore
    /\ PagesFrame

PagesNext ==
    \/ FirstPageReturns
    \/ FirstPageRaises
    \/ NextPageReturns
    \/ NextPageRaises
    \/ FetchAgain

(***************************************************************************)
(* parse.py: split_basename, _find_sxx_eyy, parse_season_and_episode and   *)
(* _find_title_and_year applied to one path                                *)
(***************************************************************************)

ParseFiles ==
    {"/in/a - b.mkv", "/in/S1.E2 E3 a b.mkv", "/tv/My Show/Season 2/a_b_E05.avi",
     "/tv/My Show/Season 2/Show.S01E02.mkv", "/in/Show.05.mkv",
     "/in/A.B (2020) c.mkv", "/in/Film.1080p.2020.mkv",
     "/in/a.1999).b c d 2020.mkv", "/in/Film.mkv", "/in/My_Show E07.mkv",
     "/in/a.bluray.x264.b_c_d.mkv", "/in/Film.bluray.bluray.x.mkv",
     "/in/Film.bluray.x.mkv"}

ParseMinLengths == {1, 2, 3}

\* A metainfo_map a configuration can give (config.py:94): the keys are
\* regular expressions, matched against whole words.
ParseMetainfo ==
    << << <<Lit("1"), Lit("0"), Lit("8"), Lit("0"), Lit("p")>>, "1080p" >>,
       << <<Lit("b"), Lit("l"), Lit("u"), Lit("r"), Lit("a"), Lit("y")>>, "BD" >>,
       << <<Lit("x"), Lit("2"), Lit("6"), Lit("4")>>, "x264" >> >>

\* parse.py:180-182  the splits _find_title_and_year goes through: without
\* the one-word splits when there are several splits
KeptSplits(splits) ==
    IF Cardinality(splits) > 1 THEN {split \in splits : Len(split) > 1}
    ELSE splits

\* parse.py:190-198  the pass over one split that takes the tags out
TagPassOf(possible_split) ==
    ExtractMetainfo(ParseMetainfo, 1, possible_split, 1,
                    [raised |-> "", parsed_metainfo |-> <<>>,
                     cleaned_split |-> possible_split])

\* parse.py:240-241  the path parse_season_and_episode hands to _find_sxx_eyy
Given(src_path, force) == IF force THEN src_path ELSE Basename(src_path)

\* parse.py:128-131, 176-179  the splits, in the orders the sort can leave
\* them in; no order at all when split_basename raises ParsingError
SplitOrders(src_path, min_split_length) ==
    SortedOrders(split_basename(src_path, split_characters, min_split_length))

\* parse.py:119-154  what _find_sxx_eyy can return or raise
FindSxxEyyResults(given, min_split_length, force) ==
    IF split_basename(given, split_characters, min_split_length) = {}
    THEN {ParsingError}
    ELSE {find_sxx_eyy(given, order, force) :
            order \in SplitOrders(given, min_split_length)}

\* parse.py:157-219  what _find_title_and_year can return or raise
FindTitleAndYearResults(src_path, min_split_length) ==
    IF split_basename(src_path, split_characters, min_split_length) = {}
    THEN {ParsingError}
    ELSE {find_title_and_year(order, ParseMetainfo) :
            order \in SplitOrders(src_path, min_split_length)}

ParseIdle ==
    /\ parse_in = NoneVal
    /\ parse_out = NoneVal

\* A function of parse.py is about to be called on a path.
ParseInit ==
    /\ parse_in \in [src_path : ParseFiles, min_split_length : ParseMinLengths,
                     force : BOOLEAN]
    /\ parse_out = NoneVal

Parsed(fn, result) ==
    /\ ~IsNone(parse_in)
    /\ IsNone(parse_out)
    /\ parse_out' = [fn |-> fn, result |-> result]
    /\ UNCHANGED parse_in
    /\ ParseFrame

\* parse.py:54-101  split_basename(src_path, split_characters, min_split_length)
SplitBasename ==
    \E result \in {split_basename(parse_in.src_path, split_characters,
                                  parse_in.min_split_length)} :
        Parsed("split_basename", result)

\* parse.py:119-154  _find_sxx_eyy, as parse_season_and_episode calls it
FindSxxEyy ==
    \E result \in FindSxxEyyResults(Given(parse_in.src_path, parse_in.force),
                                    parse_in.min_split_length, parse_in.force) :
        Parsed("_find_sxx_eyy", result)

\* parse.py:222-261  parse_season_and_episode(src_path, ..., force)
ParseSeasonAndEpisode ==
    \E result \in parse_season_and_episode(parse_in.src_path, split_characters,
                                           parse_in.min_split_length,
                                           parse_in.force) :
        Parsed("parse_season_and_episode", result)

\* parse.py:157-219  _find_title_and_year(src_path, ..., metadata_mapping)
FindTitleAndYear ==
    \E result \in FindTitleAndYearResults(parse_in.src_path,
                                          parse_in.min_split_length) :
        Parsed("_find_title_and_year", result)

\* parse.py:264-288  parse_movie_name(src_path, ..., metainfo_map)
ParseMovieName ==
    \E result \in parse_movie_name(parse_in.src_path, split_characters,
                                   parse_in.min_split_length, ParseMetainfo) :
        Parsed("parse_movie_name", result)

\* parse.py:189-198  the tag pass of _find_title_and_year on one of its splits
TagPass ==
    \E possible_split \in KeptSplits(split_basename(parse_in.src_path,
                               split_characters, parse_in.min_split_length)) :
        Parsed("tag_pass", [split |-> possible_split,
                            pass |-> TagPassOf(possible_split)])

ParseNext ==
    \/ SplitBasename
    \/ FindSxxEyy
    \/ ParseSeasonAndEpisode
    \/ FindTitleAndYear
    \/ ParseMovieName
    \/ TagPass

(***************************************************************************)
(* Specifications                                                          *)
(***************************************************************************)

\* The fetcher tasks on one provider instance.
CoreIdle == FetchInit /\ CacheIdle /\ ResolveIdle /\ ScanIdle
MidIdle == TryIdle /\ PermitsIdle /\ CommitIdle /\ CleanIdle
LateIdle == TvMatchIdle /\ MovieMatchIdle /\ PagesIdle /\ ParseIdle
MoreIdle == MidIdle /\ LateIdle

InitFetch == FetchInit /\ CacheIdle /\ ResolveIdle /\ ScanIdle /\ MoreIdle
SpecFetch == InitFetch /\ [][FetchNext]_vars

\* The fetchers of an instance whose semaphore was built with few permits
\* (metadata.py:97), under the scheduling of the asyncio loop: a permit that
\* is free goes to a waiter (Semaphore wakes its waiters in order), the server
\* answers every request, a sleep ends, a finished call hands back.
PermitCounts == 1..MaxPermits

InitThrottle ==
    /\ semaphore \in PermitCounts
    /\ lru = {}
    /\ fstack = [t \in Fetchers |-> <<>>]
    /\ fpc = [t \in Fetchers |-> "idle"]
    /\ furl = [t \in Fetchers |-> "u1"]
    /\ fmax = [t \in Fetchers |-> 0]
    /\ freq = [t \in Fetchers |-> 0]
    /\ flast = [t \in Fetchers |-> -1]
    /\ fret = [t \in Fetchers |-> "none"]
    /\ CacheIdle /\ ResolveIdle /\ ScanIdle /\ MoreIdle

FetchFairness ==
    \A t \in Fetchers :
        /\ SF_vars(FetchAcquire(t))
        /\ WF_vars(\E status \in Statuses : FetchResponse(t, status))
        /\ WF_vars(FetchWake(t))
        /\ WF_vars(FetchFinish(t))

SpecThrottle == InitThrottle /\ [][FetchNext]_vars /\ FetchFairness

\* Direct calls of the Cache methods.
InitCache == CacheInit /\ FetchInit /\ ResolveIdle /\ ScanIdle /\ MoreIdle
SpecCache == InitCache /\ [][CacheNext]_vars

\* Concurrent find_tvshow / find_movie calls on one MediaSorter.
InitResolve == ResolveInit /\ CacheInit /\ FetchInit /\ ScanIdle /\ MoreIdle
SpecResolve == InitResolve /\ [][ResolveNext]_vars

\* One scan of a directory of two files, one of them perhaps in a
\* subdirectory, on one MediaSorter.
InitScan == ScanInit /\ CacheInit /\ FetchInit /\ MoreIdle
SpecScan == InitScan /\ [][ScanNext]_vars

\* One provider's try_harder calls, one after the other.
InitTry == FetchInit /\ CacheIdle /\ ResolveIdle /\ ScanIdle /\ MoreIdle
SpecTry == InitTry /\ [][TryNext]_vars

\* The files of one directory, each resolved by a find_* call of its own.
InitPermits == FetchInit /\ CacheIdle /\ ResolveIdle /\ ScanIdle /\ MoreIdle
SpecPermits == InitPermits /\ [][PermitsNext]_vars

\* One commit_all call.
InitCommit ==
    /\ CommitInit /\ TryIdle /\ PermitsIdle /\ CleanIdle /\ LateIdle
    /\ FetchInit /\ CacheIdle /\ ResolveIdle /\ ScanIdle
SpecCommit == InitCommit /\ [][CommitNext]_vars

\* One file name, parsed and cleaned again.
InitClean ==
    /\ CleanInit /\ TryIdle /\ PermitsIdle /\ CommitIdle /\ LateIdle
    /\ FetchInit /\ CacheIdle /\ ResolveIdle /\ ScanIdle
SpecClean == InitClean /\ [][CleanNext]_vars

\* One call of TvMaze._match_tv_show.
InitTvMatch ==
    /\ TvMatchInit /\ MovieMatchIdle /\ PagesIdle /\ ParseIdle
    /\ CoreIdle /\ MidIdle
SpecTvMatch == InitTvMatch /\ [][TvMatchNext]_vars

\* One call of TMDB._match_movie.
InitMovieMatch ==
    /\ MovieMatchInit /\ TvMatchIdle /\ PagesIdle /\ ParseIdle
    /\ CoreIdle /\ MidIdle
SpecMovieMatch == InitMovieMatch /\ [][MovieMatchNext]_vars

\* One call of TMDB.async_fetch_json.
InitPages ==
    /\ PagesInit /\ TvMatchIdle /\ MovieMatchIdle /\ ParseIdle
    /\ CoreIdle /\ MidIdle
SpecPages == InitPages /\ [][PagesNext]_vars

\* One call of a function of parse.py.
InitParse ==
    /\ ParseInit /\ TvMatchIdle /\ MovieMatchIdle /\ PagesIdle
    /\ CoreIdle /\ MidIdle
SpecParse == InitParse /\ [][ParseNext]_vars

(***************************************************************************)
(* C1: for every retry ceiling m, a call async_fetch_json(url,             *)
(* max_retries=m) whose every request is answered 429 or 503 issues        *)
(* exactly m+1 HTTP requests and then raises MetadataQueryError.           *)
(* A finished call that raised MetadataQueryError on a throttled response  *)
(* has seen only throttled responses (any other response ends the call).   *)
(***************************************************************************)
AlwaysThrottled(t) ==
    fpc[t] = "done" /\ fret[t] = "MetadataQueryError" /\ flast[t] \in {429, 503}

C1_RetryBound ==
    \A t \in Fetchers : AlwaysThrottled(t) => freq[t] = fmax[t] + 1

(***************************************************************************)
(* C3: with the cache enabled, for every (non-empty) argument list made of *)
(* str or int values, Cache.insert(args, result=v) followed by             *)
(* Cache.get(args) returns v.                                              *)
(***************************************************************************)
AllScalar(args) == \A i \in 1..Len(args) : IsStr(args[i]) \/ IsInt(args[i])

GetFollowsInsert ==
    /\ lastInsert # NoneVal
    /\ got # NoneVal
    /\ got.args = lastInsert.args

C3_RoundTrip ==
    (/\ path # NoneVal
     /\ GetFollowsInsert
     /\ Len(got.args) > 0
     /\ AllScalar(got.args)) => got.ret = lastInsert.result

(***************************************************************************)
(* C4: with no cache path configured, after any sequence of get, insert    *)
(* and write calls the cache map is as constructed (empty), every get has  *)
(* returned a miss (None) and no snapshot file has been written.           *)
(***************************************************************************)
C4_DisabledCache ==
    path = NoneVal =>
        /\ memory = EmptyMap
        /\ got # NoneVal => got.ret = NoneVal
        /\ snapshot = [exists |-> FALSE]

\* C4's case: a disabled cache on which a get followed an insert of the same
\* scalar arguments.
C4_Witness ==
    /\ path = NoneVal
    /\ GetFollowsInsert
    /\ got.args = <<StrVal("x"), IntVal(2020)>>

(***************************************************************************)
(* C2: once a record has been inserted for a cache key, the cache holds    *)
(* that same record under the key ever after, whatever find_tvshow,        *)
(* find_movie, suggest_tv_show and suggest_movie calls follow: no later    *)
(* insert replaces it and no caller modifies it.                           *)
(***************************************************************************)
C2_EntriesImmutable ==
    \A k \in DOMAIN inserted : k \in DOMAIN memory /\ memory[k] = inserted[k]

(***************************************************************************)
(* C5: find_tvshow / find_movie query, in configuration order, only        *)
(* configured providers registered for the media kind; a provider is       *)
(* queried only after every earlier registered one raised                  *)
(* MetadataQueryError; the value returned after a query is the result of   *)
(* the first provider that succeeded, which is the last one queried; the   *)
(* aggregate error is raised only after all of them were queried.          *)
(***************************************************************************)
RECURSIVE EligibleFrom(_, _, _)
EligibleFrom(apis, kind, j) ==
    IF j > Len(apis) THEN <<>>
    ELSE IF apis[j] \in Registry(kind)
         THEN <<j>> \o EligibleFrom(apis, kind, j + 1)
         ELSE EligibleFrom(apis, kind, j + 1)

EligibleProviders(kind) == EligibleFrom(api, kind, 1)

IsPrefix(s, t) == Len(s) <= Len(t) /\ SubSeq(t, 1, Len(s)) = s

Raised(entry) == "raised" \in DOMAIN entry
Returned(entry) == "returned" \in DOMAIN entry

C5_ProviderOrder ==
    \A t \in Resolvers :
        LET inv == rinvoked[t]
            log == rlog[t]
            elig == EligibleProviders(rkind[t])
        IN  /\ IsPrefix(inv, elig)
            /\ Len(log) = IF rpc[t] = "query" THEN Len(inv) - 1 ELSE Len(inv)
            /\ \A j \in 1..Len(log) : log[j].api = inv[j]
            /\ \A j \in 1..(Len(inv) - 1) : Raised(log[j])
            /\ (rpc[t] = "done" /\ IsValue(rret[t]) /\ inv # <<>>) =>
                   /\ Returned(log[Len(log)])
                   /\ rret[t].value = log[Len(log)].returned
            /\ (rpc[t] = "done" /\ IsAggregate(rret[t])) =>
                   /\ inv = elig
                   /\ \A j \in 1..Len(log) : Raised(log[j])

\* C5's case: the first registered provider raised, the second was queried
\* next and its result was returned.
C5_Witness ==
    \E t \in Resolvers :
        /\ rpc[t] = "done" /\ IsValue(rret[t])
        /\ rinvoked[t] = <<1, 2>>

(***************************************************************************)
(* C6: when every registered configured provider raised                    *)
(* MetadataQueryError, find_tvshow / find_movie raise the aggregate        *)
(* MediaSorterError, and its cause list holds the error of every provider  *)
(* queried, one per provider, in the order they were queried.              *)
(***************************************************************************)
C6_AggregateError ==
    \A t \in Resolvers :
        LET log == rlog[t]
            elig == EligibleProviders(rkind[t])
        IN  /\ (/\ rpc[t] = "done" /\ elig # <<>>
                /\ Len(log) = Len(elig)
                /\ \A j \in 1..Len(log) : Raised(log[j])) => IsAggregate(rret[t])
            /\ (rpc[t] = "done" /\ IsAggregate(rret[t])) =>
                   /\ Len(rret[t].causes) = Len(elig)
                   /\ Len(log) = Len(elig)
                   /\ \A j \in 1..Len(elig) :
                          /\ log[j].api = elig[j]
                          /\ rret[t].causes[j] = log[j].raised
                   /\ rret[t] = MediaSorterError(rexc[t])

\* C6's case: two providers were queried, both raised, and the aggregate
\* error was raised.
C6_Witness ==
    \E t \in Resolvers :
        /\ rpc[t] = "done" /\ IsAggregate(rret[t])
        /\ Len(rret[t].causes) = 2

(***************************************************************************)
(* C7: a file with an allowed extension whose name matches a               *)
(* season/episode pattern in non-forced mode and that is suggested with    *)
(* media_type=movie ends as a failed Operation of type movie with no       *)
(* output path (rejected as a TV show when the name matches under          *)
(* movie.min_split_length), and neither find_movie nor find_tvshow is      *)
(* called and no provider is queried for it, before or after.              *)
(***************************************************************************)
Allowed(src_path) == SplitextExt(src_path) \in valid_extensions

MatchesNonForced(src_path, min_split_length) ==
    parse_season_and_episode(src_path, split_characters, min_split_length, FALSE)
        # {ParsingError}

NoQuery(t) ==
    /\ rpc[t] = "idle" /\ rinvoked[t] = <<>> /\ rlog[t] = <<>>
    /\ Range(slog[t]) \cap {"find_tvshow", "find_movie"} = {}

Failed(t, type) ==
    /\ spc[t] = "done" /\ sret[t] = "returned"
    /\ ~IsNone(sop[t])
    /\ sop[t].type = type
    /\ ~IsNone(sop[t].exception)
    /\ IsNone(sop[t].output_path)

C7_MovieModeRejectsTv ==
    \A t \in Resolvers :
        (/\ media_type = "movie" /\ spc[t] # "idle" /\ Allowed(files[t])
         /\ \E m \in MinSplitLengths : MatchesNonForced(files[t], m))
        => /\ Failed(t, "movie")
           /\ NoQuery(t)
           /\ MatchesNonForced(files[t], parameters.movie)
                 => sop[t].exception = MovieError(TvShowRejected)

\* C7's case: the scan has returned and holds the Operation of a file that
\* was rejected as a TV show in movie mode.
C7_Witness ==
    /\ media_type = "movie" /\ scanpc = "returned"
    /\ \E i \in DOMAIN operations :
          /\ operations[i].exception = MovieError(TvShowRejected)
          /\ MatchesNonForced(operations[i].input_path, parameters.movie)

(***************************************************************************)
(* C8: a scan is never aborted by the failure of one file: no scan(child)  *)
(* raises, scan(directory) does not raise, and when it has returned its    *)
(* list holds the Operation of every file with an allowed extension.       *)
(***************************************************************************)
C8_ScanNeverAborted ==
    /\ scanpc # "raised"
    /\ \A t \in Resolvers : sret[t] # "raised"
    /\ scanpc = "returned" =>
          \A t \in Resolvers : Allowed(files[t]) =>
              \E i \in DOMAIN operations : operations[i].input_path = files[t]

(***************************************************************************)
(* C9: under media_type=tv the movie path (disqualifier, movie parse,      *)
(* find_movie) is never entered; a file whose TV parse fails in non-forced *)
(* and in forced mode ends as a failed Operation carrying the parse error,  *)
(* with no provider queried; a file for which find_tvshow raised the       *)
(* aggregate error ends as a failed Operation carrying that error.         *)
(***************************************************************************)
MovieSteps == {"disqualify", "parse_movie_name", "find_movie"}

TvParseFails(src_path) ==
    /\ ~MatchesNonForced(src_path, parameters.tv)
    /\ parse_season_and_episode(src_path, split_characters, parameters.tv, TRUE)
          = {ParsingError}

C9_TvFailureTerminal ==
    media_type = "tv" =>
        \A t \in Resolvers :
            /\ Range(slog[t]) \cap MovieSteps = {}
            /\ rkind[t] = "tv"
            /\ (spc[t] # "idle" /\ Allowed(files[t]) /\ TvParseFails(files[t])) =>
                  /\ Failed(t, "tv")
                  /\ sop[t].exception = TvParseError
                  /\ NoQuery(t)
            /\ (rpc[t] = "done" /\ IsAggregate(rret[t])) =>
                  /\ Failed(t, "tv")
                  /\ sop[t].exception = rret[t]

\* C9's case: under tv, one file ended on its TV parse failure and another
\* on the aggregate error of find_tvshow after a provider was queried.
C9_Witness ==
    /\ media_type = "tv" /\ scanpc = "returned"
    /\ \E t, u \in Resolvers :
          /\ Allowed(files[t]) /\ TvParseFails(files[t]) /\ Failed(t, "tv")
          /\ IsAggregate(rret[u]) /\ rinvoked[u] # <<>> /\ Failed(u, "tv")

(***************************************************************************)
(* C10: under media_type=auto, a file whose TV parse raises ParsingError   *)
(* goes on to the movie path at once (no find_tvshow) and its Operation    *)
(* never carries the TV parse error; a file whose TV parse succeeds and    *)
(* for which find_tvshow raised the aggregate error ends as a failed       *)
(* Operation of type tv carrying that error, and never enters the movie    *)
(* path.                                                                   *)
(***************************************************************************)
C10_AutoFallthrough ==
    media_type = "auto" =>
        \A t \in Resolvers :
            (spc[t] # "idle" /\ Allowed(files[t])) =>
                IF TvParseFails(files[t])
                THEN /\ IsPrefix(<<"parse_tv", "parse_tv_forced", "disqualify">>, slog[t])
                     /\ "find_tvshow" \notin Range(slog[t])
                     /\ ~IsNone(sop[t]) =>
                           /\ sop[t].type = "movie"
                           /\ sop[t].exception # TvParseError
                ELSE /\ Range(slog[t]) \cap MovieSteps = {}
                     /\ "find_tvshow" \in Range(slog[t])
                     /\ rkind[t] = "tv"
                     /\ (rpc[t] = "done" /\ IsAggregate(rret[t])) =>
                           /\ Failed(t, "tv")
                           /\ sop[t].exception = rret[t]

\* C10's case: under auto, one file was resolved as a movie after its TV
\* parse failed, and another ended on the aggregate error of find_tvshow.
C10_Witness ==
    /\ media_type = "auto" /\ scanpc = "returned"
    /\ \E t, u \in Resolvers :
          /\ Allowed(files[t]) /\ TvParseFails(files[t])
          /\ spc[t] = "done" /\ ~IsNone(sop[t])
          /\ IsNone(sop[t].exception) /\ ~IsNone(sop[t].output_path)
          /\ Allowed(files[u]) /\ ~TvParseFails(files[u])
          /\ IsAggregate(rret[u]) /\ rinvoked[u] # <<>> /\ Failed(u, "tv")

(***************************************************************************)
(* C14: a call async_fetch_json(url, max_retries=m) that is answered with  *)
(* k <= m throttled responses (429 or 503) and then a 2xx returns the      *)
(* JSON.  A call answered 2xx returns the JSON; and a call that raised     *)
(* MetadataQueryError on a throttled response (having seen only throttled  *)
(* responses) has seen more than m of them.                                *)
(***************************************************************************)
C14_ThrottlingBelowCeiling ==
    \A t \in Fetchers :
        /\ (fpc[t] = "done" /\ flast[t] = 200) => fret[t] = "json"
        /\ AlwaysThrottled(t) => freq[t] > fmax[t]

(***************************************************************************)
(* C15: an error response whose status is neither 429 nor 503 ends the     *)
(* whole async_fetch_json call with MetadataQueryError at once, at every   *)
(* retry index: no sleep, no nested call, no further request.              *)
(***************************************************************************)
NotRetried == Statuses \ {200, 429, 503, CONNECTION_FAILURE}

C15_NoRetryOnOtherStatus ==
    \A t \in Fetchers :
        flast[t] \in NotRetried =>
            /\ fpc[t] = "done"
            /\ fret[t] = "MetadataQueryError"
            /\ fstack[t] = <<>>

\* C15's case: a 404 ended a call at a retry index above 0.
C15_Witness ==
    \E t \in Fetchers :
        flast[t] \in NotRetried /\ freq[t] >= 2 /\ fret[t] = "MetadataQueryError"

(***************************************************************************)
(* C16: a fetch of a URL whose response is stored returns it without an    *)
(* HTTP request; a fetch of any other URL issues one; a request that ends  *)
(* in 2xx stores the URL, a request that fails stores nothing; and no      *)
(* stored URL is dropped (the model stays below the capacity of 1024).     *)
(***************************************************************************)
Requested(t) == fpc[t] = "acquire" /\ fpc'[t] # "acquire"
Answered(t) == fpc[t] = "await_response" /\ fpc'[t] # "await_response"

C16_StoredResponses ==
    [][\A t \in Fetchers :
          /\ (Requested(t) /\ furl[t] \in lru) =>
                 freq'[t] = freq[t] /\ fpc'[t] = "done" /\ fret'[t] = "json"
          /\ (Requested(t) /\ furl[t] \notin lru) =>
                 freq'[t] = freq[t] + 1 /\ fpc'[t] = "await_response"
          /\ (Answered(t) /\ flast'[t] = 200) => lru' = lru \cup {furl[t]}
          /\ (Answered(t) /\ flast'[t] # 200) => lru' = lru
          /\ lru \subseteq lru']_vars

\* C16's case: one call was served from the store without a request while
\* the URL of a call that failed is not stored.
C16_Witness ==
    \E t, u \in Fetchers :
        /\ fpc[t] = "done" /\ fret[t] = "json" /\ freq[t] = 0
        /\ fpc[u] = "done" /\ flast[u] = 404 /\ furl[u] \notin lru

(***************************************************************************)
(* C11: a try_harder call whose every attempt failed raises the            *)
(* MetadataQueryError of its first attempt, the one made with the full     *)
(* search term; a call that made no attempt raises the error it builds     *)
(* itself.                                                                 *)
(***************************************************************************)
C11_FirstErrorRaised ==
    (tpc = "done" /\ IsQueryError(tret)) =>
        IF tlog = <<>> THEN tret = NoExceptionProvided
        ELSE /\ tret = tlog[1].outcome
             /\ tlog[1].search_term = Join(Words(targs.search_term), " ")

\* C11's case: three attempts failed, for different reasons, and the call
\* has raised.
C11_Witness ==
    /\ tpc = "done" /\ IsQueryError(tret) /\ Len(tlog) = 3
    /\ tlog[1].outcome.raised_by # tlog[3].outcome.raised_by

(***************************************************************************)
(* C12: for a search term of n words and a floor min_len, the attempts of  *)
(* try_harder are made with the n-word term, then with its prefixes of     *)
(* n-1, n-2, ... words, one attempt per length and none with fewer than    *)
(* min_len words (what is sent for a prefix is clean_search_term of it);   *)
(* every attempt but the last failed; a returned value is the value of the *)
(* last attempt; an error is raised only after all n - min_len + 1         *)
(* attempts; and there are never more attempts than that.                  *)
(***************************************************************************)
MaxAttempts(n, min_len) == IF n >= min_len THEN n - min_len + 1 ELSE 0

PrefixOf(words, i) == Join(SubSeq(words, 1, Len(words) - i + 1), " ")

RelaxedInOrder(words, min_len) ==
    /\ Len(tlog) <= MaxAttempts(Len(words), min_len)
    /\ \A i \in 1..Len(tlog) :
          /\ tlog[i].try_index = i
          /\ tlog[i].search_term = PrefixOf(words, i)
          /\ Len(Words(tlog[i].search_term)) = Len(words) - i + 1
          /\ Len(Words(tlog[i].search_term)) >= min_len
          /\ tlog[i].search_title = clean_search_term(targs.api, PrefixOf(words, i))
          /\ i < Len(tlog) => IsQueryError(tlog[i].outcome)
    /\ (tpc = "done" /\ "value" \in DOMAIN tret) =>
          /\ tlog # <<>>
          /\ tlog[Len(tlog)].outcome = Validated
          /\ tret.value = tlog[Len(tlog)].search_title
    /\ (tpc = "done" /\ IsQueryError(tret)) =>
          Len(tlog) = MaxAttempts(Len(words), min_len)

C12_RelaxationOrder ==
    tpc # "idle" => RelaxedInOrder(Words(targs.search_term), targs.min_len)

\* C12's case: with a floor of two words, the second attempt of a three-word
\* term validated and its value was returned.
C12_Witness ==
    /\ tpc = "done" /\ "value" \in DOMAIN tret
    /\ targs.min_len = 2 /\ Len(Words(targs.search_term)) = 3
    /\ Len(tlog) = 2

(***************************************************************************)
(* C13: at every moment the HTTP requests in flight, over all the files    *)
(* resolved concurrently and all their providers, number at most           *)
(* max_concurrent_requests; a fetch waits while no permit is free.         *)
(***************************************************************************)
C13_SharedPermitPool == Cardinality(InFlight) <= max_concurrent_requests

(***************************************************************************)
(* C17: with the cache enabled and str / int arguments, the step in which  *)
(* find_tvshow / find_movie returns a provider's result leaves an entry    *)
(* under the key of the call's arguments (the returned record, when find_* *)
(* was called directly); and a call that finds an entry under the key of   *)
(* its arguments returns that entry at once, no provider constructed or    *)
(* queried.                                                                *)
(***************************************************************************)
KeyOf(args) == construct_unique_key(args).str

Cacheable(args) == ~is_disabled(path) /\ AllScalar(args)

ReturnsFromProvider(t) ==
    rpc[t] = "query" /\ rpc'[t] = "done" /\ IsValue(rret'[t])

Called(t) == rpc[t] = "idle" /\ rpc'[t] # "idle"

C17_WriteThroughAndHit ==
    [][\A t \in Resolvers :
          /\ (ReturnsFromProvider(t) /\ Cacheable(rargs[t])) =>
                 /\ KeyOf(rargs[t]) \in DOMAIN memory'
                 /\ rcaller[t] = "find" =>
                        memory'[KeyOf(rargs[t])] = rret'[t].value
          /\ (Called(t) /\ Cacheable(rargs'[t])
                  /\ KeyOf(rargs'[t]) \in DOMAIN memory) =>
                 /\ rpc'[t] = "done"
                 /\ rret'[t] = [value |-> memory[KeyOf(rargs'[t])]]
                 /\ rinvoked'[t] = <<>>
                 /\ rlog'[t] = <<>>]_vars

\* C17's case: a call was answered from the cache, by the record another
\* call obtained from a provider and inserted.
C17_Witness ==
    \E t \in Resolvers :
        /\ rpc[t] = "done" /\ IsValue(rret[t]) /\ rinvoked[t] = <<>>
        /\ Cacheable(rargs[t])
        /\ KeyOf(rargs[t]) \in DOMAIN inserted
        /\ rret[t].value = inserted[KeyOf(rargs[t])]

(***************************************************************************)
(* C18: when scan(directory) has returned, the scan of every descendant    *)
(* entry (the subdirectory and every file, in the directory or below) has  *)
(* finished, and the returned list holds exactly one Operation for every   *)
(* descendant file with an extension of valid_extensions and none for any  *)
(* other file.                                                             *)
(***************************************************************************)
OperationsFor(src_path) ==
    {i \in DOMAIN operations : operations[i].input_path = src_path}

C18_ScanFanIn ==
    /\ subpc = "returned" =>
          \A t \in Resolvers : InSub(t) => spc[t] = "done" /\ sret[t] = "returned"
    /\ scanpc = "returned" =>
          /\ subpc \in {"none", "returned"}
          /\ \A t \in Resolvers :
                /\ spc[t] = "done" /\ sret[t] = "returned"
                /\ Cardinality(OperationsFor(files[t])) =
                       IF Allowed(files[t]) THEN 1 ELSE 0
          /\ Len(operations) = Cardinality({t \in Resolvers : Allowed(files[t])})

\* C18's case: a scan has returned the one Operation of a media file of the
\* subdirectory, after a provider query, and none for a file without an
\* allowed extension.
C18_Witness ==
    /\ scanpc = "returned" /\ subpc = "returned" /\ Len(operations) = 1
    /\ \E t, u \in Resolvers :
          /\ ~Allowed(files[t]) /\ ~InSub(t)
          /\ Allowed(files[u]) /\ InSub(u) /\ rinvoked[u] # <<>>
          /\ operations[1].input_path = files[u]

(***************************************************************************)
(* C19: commit_all never raises: it goes through the list in order, a      *)
(* failure of one Operation (one without output path or with an error      *)
(* included) is stored on that Operation, and it returns after the last    *)
(* Operation of the list.                                                  *)
(***************************************************************************)
C19_CommitAllCompletes ==
    /\ commitpc # "raised"
    /\ commitpc = "returned" => cidx = Len(cops) + 1

(***************************************************************************)
(* C20: the title clean-up of the parsers is idempotent: applied to a      *)
(* title that a parser returned (which is an output of the clean-up), it   *)
(* returns the same title.                                                 *)
(***************************************************************************)
C20_CleanupIdempotent ==
    clean_again # NoneVal => clean_again = clean_title

(***************************************************************************)
(* C21: TV validation runs its stages in order.  With an exact match in    *)
(* the embedded list that episode is returned and the alternative URL is   *)
(* never fetched; the alternative URL is fetched only without such a       *)
(* match; the positional fallback is used only when the alternative list   *)
(* has no exact match either; a call in which no stage finds an episode    *)
(* raises MetadataQueryError.                                              *)
(***************************************************************************)
AlternateFetched == vpc = "alternate" \/ ~IsNone(valt)
AlternateAnswered == AlternateFetched /\ vpc = "done" /\ valt # FetchFailed
AlternateMatch == find_episode(valt.episodes, 1, vin.season_id, vin.episode_id)
AlternateSeason == SeasonOnly(valt.episodes, vin.season_id)
SeasonCount == Len(AlternateSeason)

C21_StagesInOrder ==
    /\ ~IsNone(EmbeddedMatch) =>
          /\ ~AlternateFetched
          /\ vpc = "done" => vret = EpisodeReturned(EmbeddedMatch, "embedded")
    /\ AlternateFetched => IsNone(EmbeddedMatch)
    /\ AlternateAnswered /\ ~IsNone(AlternateMatch) =>
          vret = EpisodeReturned(AlternateMatch, "alternate")
    /\ vpc = "done" /\ "stage" \in DOMAIN vret /\ vret.stage = "positional" =>
          AlternateAnswered /\ IsNone(AlternateMatch)
    /\ vpc = "done" /\ IsNone(EmbeddedMatch) /\ ~AlternateFetched =>
          vret = EpisodeNotFound
    /\ AlternateAnswered /\ IsNone(AlternateMatch)
          /\ (SeasonCount = 0 \/ vin.episode_id > SeasonCount) =>
          "raised" \in DOMAIN vret /\ vret.raised = "MetadataQueryError"

\* C21's case: the embedded list had another episode of the season, the
\* alternative list was fetched and holds the episode asked for behind a
\* special of the same season.
C21_Witness ==
    /\ vpc = "done"
    /\ vin.episodes # <<>>
    /\ AlternateAnswered
    /\ Len(valt.episodes) >= 2
    /\ IsNone(valt.episodes[1].number)
    /\ vret = EpisodeReturned(AlternateMatch, "alternate")

(***************************************************************************)
(* C22: in the positional fallback the episode number is a 1-based index   *)
(* into the episodes of the season sorted by air date: with n of them the  *)
(* episode at that position is returned exactly when 1 <= episode <= n,    *)
(* and MetadataQueryError is raised in every other case.                   *)
(***************************************************************************)
C22_PositionalOneBased ==
    AlternateAnswered /\ IsNone(AlternateMatch) =>
        IF 1 <= vin.episode_id /\ vin.episode_id <= SeasonCount
        THEN vret = EpisodeReturned(
                        SortByAirdate(AlternateSeason)[vin.episode_id],
                        "positional")
        ELSE "raised" \in DOMAIN vret /\ vret.raised = "MetadataQueryError"

\* The fallback where the claim holds: episode 2 of a season listed against
\* the order of the air dates.
C22_InRange ==
    /\ AlternateAnswered /\ IsNone(AlternateMatch)
    /\ vin.episode_id = 2
    /\ SeasonCount = 2
    /\ AlternateSeason # SortByAirdate(AlternateSeason)
    /\ "stage" \in DOMAIN vret

(***************************************************************************)
(* C23: with a target year, a movie result that _match_movie accepts has   *)
(* its release year within 1 of the target, and a payload without a result *)
(* in that range makes it raise MetadataQueryError.                        *)
(***************************************************************************)
MovieMatched == ~IsNone(mm_in) /\ ~IsNone(mm_out)
MovieAccepted == MovieMatched /\ "returned" \in DOMAIN mm_out
MovieRejected ==
    MovieMatched /\ "raised" \in DOMAIN mm_out /\ mm_out.raised = "MetadataQueryError"
TargetKnown == IsInt(mm_in.search_year)
InRange ==
    {i \in DOMAIN mm_in.results :
        /\ parse_release_year(mm_in.results[i]) - mm_in.search_year.int <= 1
        /\ mm_in.search_year.int - parse_release_year(mm_in.results[i]) <= 1}

C23_YearWindow ==
    MovieMatched /\ TargetKnown =>
        /\ MovieAccepted =>
              \E i \in InRange :
                  /\ mm_out.result = mm_in.results[i]
                  /\ mm_out.returned[2] = parse_release_year(mm_in.results[i])
        /\ InRange = {} => MovieRejected

(***************************************************************************)
(* C24: without a target year and with more than two results, only the     *)
(* results with a popularity above the threshold are kept, and the call    *)
(* raises MetadataQueryError when more than two of them remain; a result   *)
(* is accepted without a year only when at most two candidates remain.     *)
(***************************************************************************)
PopularOnes == {i \in DOMAIN mm_in.results : Popular(mm_in.results[i])}

C24_AmbiguousWithoutYear ==
    MovieMatched /\ ~TargetKnown =>
        /\ Len(mm_in.results) > 2 /\ MovieAccepted =>
              /\ Cardinality(PopularOnes) <= 2
              /\ \E i \in PopularOnes : mm_out.result = mm_in.results[i]
        /\ Len(mm_in.results) > 2 /\ Cardinality(PopularOnes) > 2 =>
              mm_out = TooManyResults
        /\ Len(mm_in.results) > 2 /\ PopularOnes = {} => ~MovieAccepted

\* C24's case: three results, one of them below the threshold and not the
\* first of the list; the first of the two others is accepted.
C24_Witness ==
    /\ MovieAccepted /\ ~TargetKnown
    /\ Len(mm_in.results) = 3
    /\ Cardinality(PopularOnes) = 2
    /\ ~Popular(mm_in.results[1])
    /\ mm_out.result = mm_in.results[2]

(***************************************************************************)
(* C25: _match_movie accepts a result only if a token of letters or digits *)
(* (at least one) of the search term equals, whatever the case, a token of *)
(* the title or of the original title of the result.                       *)
(***************************************************************************)
AlphanumTokens(string) ==
    {split_and_lower(string)[i] : i \in DOMAIN split_and_lower(string)} \ {""}

C25_SharedToken ==
    MovieAccepted =>
        AlphanumTokens(mm_in.search_term)
            \cap (AlphanumTokens(mm_out.result.title)
                      \cup AlphanumTokens(mm_out.result.original_title)) # {}

(***************************************************************************)
(* C26: one paged movie fetch requests page 1 and then the pages           *)
(* 2..min(total_pages, max_pages) only: never more than max_pages pages,   *)
(* never a page beyond total_pages, and no further page when page 1        *)
(* reports at most one page or has no results.                             *)
(***************************************************************************)
Min(a, b) == IF a <= b THEN a ELSE b
PagesRequested == {pglog[i] : i \in DOMAIN pglog}
FirstPageSeen == ~IsNone(pgfirst)
ReportedPages ==
    IF IsInt(pgfirst.total_pages) THEN pgfirst.total_pages.int ELSE 0
FirstPageBare ==
    \/ IsNone(pgfirst.results)
    \/ pgfirst.results.items = <<>>

SplitReturned == ~IsNone(parse_out) /\ parse_out.fn = "split_basename"
NotBlacklisted(token) == token # "-"
TokensBy(delimiter) ==
    SelectSeq(SplitWords(SplitextRoot(Basename(parse_in.src_path)), delimiter),
              NotBlacklisted)
Delimiters == {split_characters[i] : i \in DOMAIN split_characters}

C27_SplitLongEnough ==
    SplitReturned =>
        /\ \A tokens \in parse_out.result :
              /\ Len(tokens) >= parse_in.min_split_length
              /\ \A i \in DOMAIN tokens : tokens[i] # "" /\ tokens[i] # "-"
        /\ parse_out.result = {} <=>
              ~\E delimiter \in Delimiters :
                   Len(TokensBy(delimiter)) >= parse_in.min_split_length

(***************************************************************************)
(* C28: the season/episode match of the TV parser comes from the longest   *)
(* split in which a pattern of the active table matches and, in that       *)
(* split, from the earliest matching pattern of the table; without force   *)
(* only the base table is active; ParsingError is raised exactly when no   *)
(* pattern matches in any split.                                           *)
(***************************************************************************)
SxxEyyReturned == ~IsNone(parse_out) /\ parse_out.fn = "_find_sxx_eyy"
TvGiven == Given(parse_in.src_path, parse_in.force)
TvSplits == split_basename(TvGiven, split_characters, parse_in.min_split_length)
ActiveTable ==
    IF parse_in.force THEN SxxEyy_PATTERNS_EXTENDED ELSE SxxEyy_PATTERNS
MatchingIn(tokens) ==
    {k \in DOMAIN ActiveTable : Search(ActiveTable[k], Join(tokens, " ")).ok}
MatchingSplits == {tokens \in TvSplits : MatchingIn(tokens) # {}}
LongestMatching ==
    {tokens \in MatchingSplits :
        \A other \in MatchingSplits : Len(other) <= Len(tokens)}

C28_LongestSplitEarliestPattern ==
    SxxEyyReturned =>
        /\ parse_out.result = ParsingError <=> MatchingSplits = {}
        /\ parse_out.result # ParsingError =>
              \E tokens \in LongestMatching :
                  parse_out.result =
                      SxxEyyIn(find_sxx_eyy_in_dis_structure(TvGiven),
                               Join(tokens, " "),
                               ActiveTable[SetMin(MatchingIn(tokens))])

\* C28's case: the longest split has a match of a later pattern only (" E3 ")
\* while a shorter split has one of the first pattern ("S1 E2"); the match
\* of the longest split is returned.
C28_Witness ==
    /\ SxxEyyReturned
    /\ parse_out.result # ParsingError
    /\ \E tokens \in LongestMatching, other \in MatchingSplits :
          /\ Len(other) < Len(tokens)
          /\ SetMin(MatchingIn(other)) < SetMin(MatchingIn(tokens))
    /\ parse_out.result.episode_id = 3

(***************************************************************************)
(* C29: for a path whose parent directory is named 'Season N',             *)
(* parse_season_and_episode, called with force true or false, takes the    *)
(* title from the name of the grandparent directory, tries the extended    *)
(* patterns and returns season N when the matching pattern captures the    *)
(* episode only; without a season directory such a match gives season 1.   *)
(***************************************************************************)
TvParsed == ~IsNone(parse_out) /\ parse_out.fn = "parse_season_and_episode"
SeasonDirectory == find_sxx_eyy_in_dis_structure(parse_in.src_path)
InSeasonDirectory == SeasonDirectory.season_id > 0
AllSplits ==
    split_basename(parse_in.src_path, split_characters, parse_in.min_split_length)
CapturesBoth ==
    \E tokens \in AllSplits : \E k \in DOMAIN SxxEyy_PATTERNS_EXTENDED :
        /\ NGroups(SxxEyy_PATTERNS_EXTENDED[k]) = 2
        /\ Search(SxxEyy_PATTERNS_EXTENDED[k], Join(tokens, " ")).ok
MatchesExtended ==
    \E tokens \in AllSplits : \E k \in DOMAIN SxxEyy_PATTERNS_EXTENDED :
        Search(SxxEyy_PATTERNS_EXTENDED[k], Join(tokens, " ")).ok

C29_SeasonDirectory ==
    TvParsed =>
        /\ InSeasonDirectory =>
              /\ parse_out.result = ParsingError <=> ~MatchesExtended
              /\ parse_out.result # ParsingError =>
                    /\ parse_out.result.name =
                           Cleanup("tv", SeasonDirectory.show_name)
                    /\ ~CapturesBoth =>
                           parse_out.result.season_id = SeasonDirectory.season_id
        /\ ~InSeasonDirectory /\ parse_out.result # ParsingError /\ ~CapturesBoth =>
              parse_out.result.season_id = 1

\* The forced call, where the claim holds: the title of the grandparent
\* directory and the season of the parent with the episode of the file name.
C29_Forced ==
    /\ TvParsed /\ parse_in.force /\ InSeasonDirectory /\ ~CapturesBoth
    /\ parse_out.result # ParsingError
    /\ parse_out.result.name = "my show"
    /\ parse_out.result.season_id = 2
    /\ parse_out.result.episode_id = 5

(***************************************************************************)
(* C30: the movie parser goes by patterns first: the year it returns comes *)
(* from the earliest year pattern of the table that matches any of the     *)
(* splits it keeps (the one-word splits are dropped when there are several *)
(* splits) and, among the splits that pattern matches, from the longest;   *)
(* the title is the tokens before the match and the tags are those         *)
(* recognized in that split.                                               *)
(***************************************************************************)
TitleReturned == ~IsNone(parse_out) /\ parse_out.fn = "_find_title_and_year"
MovieSplits ==
    IF Cardinality(AllSplits) > 1 THEN {tokens \in AllSplits : Len(tokens) > 1}
    ELSE AllSplits
Recognized(tokens) ==
    ExtractMetainfo(ParseMetainfo, 1, tokens, 1,
                    [raised |-> "", parsed_metainfo |-> <<>>, cleaned_split |-> tokens])
YearIn(tokens, p) ==
    Search(YEAR_PATTERNS[p], Join(Recognized(tokens).cleaned_split, " "))
YearPatterns ==
    {p \in DOMAIN YEAR_PATTERNS : \E tokens \in MovieSplits : YearIn(tokens, p).ok}
LongestWith(p) ==
    {tokens \in MovieSplits :
        /\ YearIn(tokens, p).ok
        /\ \A other \in MovieSplits : YearIn(other, p).ok => Len(other) <= Len(tokens)}
YearResult(tokens, p) ==
    [raised |-> "",
     words |-> SplitWords(SubSeq(Join(Recognized(tokens).cleaned_split, " "),
                                 1, YearIn(tokens, p).start - 1), " "),
     year |-> IntVal(ToInt(YearIn(tokens, p).g1)),
     metainfo |-> Recognized(tokens).parsed_metainfo]

C30_PatternMajor ==
    TitleReturned /\ parse_out.result # ParsingError =>
        IF YearPatterns = {} THEN IsNone(parse_out.result.year)
        ELSE \E tokens \in LongestWith(SetMin(YearPatterns)) :
                parse_out.result = YearResult(tokens, SetMin(YearPatterns))

\* C30's case: the longest split has a match of a later pattern only
\* (" 2020" at the end) while a shorter split has one of an earlier pattern
\* (" 1999) "); the year of the earlier pattern is returned.
C30_Witness ==
    /\ TitleReturned /\ parse_out.result # ParsingError
    /\ YearPatterns # {}
    /\ \E tokens \in LongestWith(SetMin(YearPatterns)), other \in MovieSplits :
          /\ Len(other) > Len(tokens)
          /\ \E p \in DOMAIN YEAR_PATTERNS : YearIn(other, p).ok
    /\ parse_out.result.year = IntVal(1999)

\* The tags of the split with the match are returned with the year.
C30_Tags ==
    /\ TitleReturned /\ parse_out.result # ParsingError
    /\ parse_out.result.year = IntVal(2020)
    /\ parse_out.result.metainfo = <<"1080p">>
    /\ parse_out.result.words = <<"Film">>

(***************************************************************************)
(* C31: when no year pattern matches any split, the movie parser returns,  *)
(* without a year, the split with the most recognized tags and, among the  *)
(* splits with equally many tags, one with the longest token sequence.     *)
(***************************************************************************)
TagCount(tokens) == Len(Recognized(tokens).parsed_metainfo)
MostTags ==
    {tokens \in MovieSplits :
        \A other \in MovieSplits : TagCount(other) <= TagCount(tokens)}
BestGuesses ==
    {tokens \in MostTags :
        \A other \in MostTags :
            Len(Recognized(other).cleaned_split)
                <= Len(Recognized(tokens).cleaned_split)}

C31_FallbackGuess ==
    TitleReturned /\ parse_out.result # ParsingError /\ YearPatterns = {}
        /\ MovieSplits # {} =>
        \E tokens \in BestGuesses :
            parse_out.result =
                [raised |-> "", words |-> Recognized(tokens).cleaned_split,
                 year |-> NoneVal,
                 metainfo |-> Recognized(tokens).parsed_metainfo]

(***************************************************************************)
(* C32: after the tag pass of the movie parser on a split no remaining     *)
(* token matches a key of the metainfo map, and the tag list holds every   *)
(* recognized tag exactly once.                                            *)
(***************************************************************************)
TagPassDone == ~IsNone(parse_out) /\ parse_out.fn = "tag_pass"
IsTagWord(word) ==
    \E k \in DOMAIN ParseMetainfo : FullMatch(ParseMetainfo[k][1], word)
TagsOf(tokens) ==
    {ParseMetainfo[k][2] : k \in {j \in DOMAIN ParseMetainfo :
        \E i \in DOMAIN tokens : FullMatch(ParseMetainfo[j][1], tokens[i])}}

C32_TagsExcised ==
    TagPassDone =>
        /\ parse_out.result.pass.raised = ""
        /\ \A i \in DOMAIN parse_out.result.pass.cleaned_split :
              ~IsTagWord(parse_out.result.pass.cleaned_split[i])
        /\ Range(parse_out.result.pass.parsed_metainfo) = TagsOf(parse_out.result.split)
        /\ Len(parse_out.result.pass.parsed_metainfo)
               = Cardinality(TagsOf(parse_out.result.split))


(***************************************************************************)
(* C33: a cache built on the path of a snapshot that an enabled cache      *)
(* wrote holds exactly the keys the writing cache held, each with the same *)
(* record (a TV record is read back as a TV record, a movie record as a    *)
(* movie record), and its get answers every argument list as the writing   *)
(* cache's did.                                                            *)
(***************************************************************************)
RoundTripped == reopened # NoneVal /\ reopened.held # NoneVal

IsTvRecord(record) == DOMAIN record = DOMAIN TvShowFields
IsMovieRecord(record) == DOMAIN record = DOMAIN MovieFields

C33_SnapshotRoundTrip ==
    RoundTripped =>
        /\ DOMAIN reopened.loaded = DOMAIN reopened.held.items
        /\ \A k \in DOMAIN reopened.held.items :
               /\ reopened.loaded[k] = reopened.held.items[k]
               /\ IsTvRecord(reopened.loaded[k]) = IsTvRecord(reopened.held.items[k])
               /\ IsMovieRecord(reopened.loaded[k]) = IsMovieRecord(reopened.held.items[k])
        /\ \A args \in CacheArgs :
               CacheGet(path, reopened.loaded, args) = CacheGet(path, reopened.held.items, args)

\* a snapshot holding a TV record and a movie record has been read back
C33_Witness ==
    /\ RoundTripped
    /\ \E k \in DOMAIN reopened.held.items : IsTvRecord(reopened.held.items[k])
    /\ \E k \in DOMAIN reopened.held.items : IsMovieRecord(reopened.held.items[k])
    /\ memory = reopened.loaded


(***************************************************************************)
(* C34: one async_fetch_json call, its retries included, holds at most one *)
(* permit of the semaphore at any time, and holds none while an attempt    *)
(* waits for a permit.                                                     *)
(***************************************************************************)
\* every frame of the call has taken a permit, but for the innermost one
\* while it waits at semaphore.acquire()
PermitsHeld(t) == Len(fstack[t]) - (IF fpc[t] = "acquire" THEN 1 ELSE 0)

C34_OnePermitPerCall ==
    \A t \in Fetchers :
        /\ PermitsHeld(t) <= 1
        /\ fpc[t] = "acquire" => PermitsHeld(t) = 0


(***************************************************************************)
(* C35: whatever the permit count (at least one) and whatever the server   *)
(* answers, every async_fetch_json call that has started eventually        *)
(* returns or raises; none waits forever for a permit.                     *)
(***************************************************************************)
Fetching(t) == fpc[t] \in {"acquire", "await_response", "sleep"}

C35_EveryFetchEnds == \A t \in Fetchers : Fetching(t) ~> (fpc[t] = "done")


(***************************************************************************)
(* C36: the result list a paged movie fetch returns holds the results of   *)
(* each page it fetched exactly once, however often the URL was fetched    *)
(* before; two fetches of the URL return equal result lists; and a         *)
(* response stored in the URL cache is never modified afterwards.          *)
(***************************************************************************)
PagedFetchReturned == pgpc = "done" /\ "returned" \in DOMAIN pgret

\* the results of the pages 1..n as the service sent them, in page order
RECURSIVE PagesJoined(_)
PagesJoined(n) ==
    IF n = 0 THEN <<>>
    ELSE PagesJoined(n - 1) \o
         (IF IsNone(pgstore[n].stored.results) THEN <<>>
          ELSE pgstore[n].stored.results.items)

EachPageOnce ==
    PagedFetchReturned /\ ~NoResults(pgret.returned) =>
        pgret.returned.results.items = PagesJoined(Len(pglog))

SameAsBefore ==
    PagedFetchReturned =>
        \A i \in DOMAIN pgcalls :
            "returned" \in DOMAIN pgcalls[i] => pgcalls[i].returned = pgret.returned

StoredUntouched == \A page \in DOMAIN pgstore : pgstore[page].now = pgstore[page].stored

C36_PagesOnce == EachPageOnce /\ SameAsBefore /\ StoredUntouched


(***************************************************************************)
(* C37: for one path and one configuration, parse_season_and_episode and   *)
(* parse_movie_name have one result only: whatever order split_basename    *)
(* hands the splits of equal length back in, the result is the same.       *)
(***************************************************************************)
ParsedBy(fn) == ~IsNone(parse_out) /\ parse_out.fn = fn

C37_Deterministic ==
    /\ ParsedBy("parse_season_and_episode") =>
          \A other \in parse_season_and_episode(parse_in.src_path, split_characters,
                            parse_in.min_split_length, parse_in.force) :
              other = parse_out.result
    /\ ParsedBy("parse_movie_name") =>
          \A other \in parse_movie_name(parse_in.src_path, split_characters,
                            parse_in.min_split_length, ParseMetainfo) :
              other = parse_out.result


(***************************************************************************)
(* C38: two calls of find_tvshow / find_movie whose argument lists differ  *)
(* never get the same cache key, so a get is never answered with the       *)
(* record that was inserted for another query.                             *)
(***************************************************************************)
\* the argument lists find_movie(movie, year) and find_tvshow(name, series,
\* episode) pass on to the cache (sort.py:263, 286, 329, 368)
IsMovieCall(args) ==
    Len(args) = 2 /\ IsStr(args[1]) /\ args[1].str # ""
        /\ (IsInt(args[2]) \/ IsNone(args[2]))
IsTvCall(args) ==
    Len(args) = 3 /\ IsStr(args[1]) /\ args[1].str # ""
        /\ IsInt(args[2]) /\ IsInt(args[3])
IsResolverCall(args) == IsMovieCall(args) \/ IsTvCall(args)

GotAfterInsert ==
    /\ got # NoneVal /\ lastInsert # NoneVal
    /\ IsResolverCall(got.args) /\ IsResolverCall(lastInsert.args)

C38_KeysInjective ==
    GotAfterInsert /\ got.args # lastInsert.args =>
        construct_unique_key(got.args) # construct_unique_key(lastInsert.args)


(***************************************************************************)
(* C39: every Operation suggest returns has exactly one of output_path and *)
(* exception set: an output path and no error for a resolved file, an      *)
(* error and no output path for a failed one.                              *)
(***************************************************************************)
SuggestReturnedOp(t) == sret[t] = "returned" /\ ~IsNone(sop[t])

HasOutput(op) == IsStr(op.output_path) /\ op.output_path.str # ""
HasError(op) == ~IsNone(op.exception)

C39_PathOrError ==
    \A t \in Resolvers :
        SuggestReturnedOp(t) =>
            /\ HasOutput(sop[t]) # HasError(sop[t])
            /\ HasError(sop[t]) => IsNone(sop[t].output_path)

\* suggest has returned a resolved Operation for one file and a failed one
\* for the other
C39_Witness ==
    \E t, u \in Resolvers :
        /\ SuggestReturnedOp(t) /\ HasOutput(sop[t])
        /\ SuggestReturnedOp(u) /\ HasError(sop[u])


(***************************************************************************)
(* C40: a commit that ends with its Operation marked as error does not     *)
(* remove a file that was at the destination path before it, whether       *)
(* overwrite is allowed or not.                                            *)
(***************************************************************************)
\* the commit of the Operation at position i ends in this step
CommitEnds(i) == cidx = i /\ cidx' = i + 1

FailedCommitKeeps(i) ==
    CommitEnds(i) /\ ~IsNone(cops'[i].exception) /\ IsStr(cops[i].output_path) =>
        (cops[i].output_path.str \in disk => cops[i].output_path.str \in disk')

C40_FailedCommitKeepsDestination == [][\A i \in 1..2 : FailedCommitKeeps(i)]_vars

====
